---- MODULE Spec2Model ----
(***************************************************************************)
(* A model of the macFUSE userspace library core: the channel/session      *)
(* objects of lib/fuse_session.c, the dispatch loops of                    *)
(* lib/fuse_loop_dispatch.c and lib/fuse_mt.c, the mount/unmount           *)
(* orchestration of lib/helper.c and the signal path of lib/fuse_signals.c *)
(* (the __APPLE__ build).                                                  *)
(*                                                                         *)
(* The module holds several specifications over one set of variables:      *)
(*   Spec      the channel API (retain/release/destroy/set_disk/disk)      *)
(*   SpecSess  the session/channel binding and the exited flag            *)
(*   SpecDisp  fuse_session_loop_dispatch with its work units              *)
(*   SpecMt    the worker pool of fuse_loop_mt                             *)
(*   SpecMnt   mount, mount callback, signal handler and teardown          *)
(*   SpecMntFair  SpecMnt with neither thread sleeping in its locked part   *)
(*   SpecSig   fuse_set_signal_handlers / fuse_remove_signal_handlers      *)
(*   SpecDaemon  fuse_daemonize: parent, child and the handshake pipe      *)
(*   SpecDisk  fuse_chan_disk / fuse_chan_set_disk, statement by statement *)
(*   SpecSigDfl  SpecSig from all-default dispositions                     *)
(*   SpecSigApp  SpecSig with the application's dispositions remembered    *)
(*   SpecUnm   fuse_unmount_common, __APPLE__ branch, as one call          *)
(*   SpecUnmGen  fuse_unmount_common, #else branch, as one call            *)
(***************************************************************************)
EXTENDS Integers, Sequences, FiniteSets, TLC

NULL == "NULL"

Chans == {"c1", "c2"}
Sessions == {"s1", "s2"}
DiskRefs == {"ref_a", "ref_b", "ref_c"}

\* Bounds of the model.
MaxRetain == 2
MaxCF == 3
MaxReps == 2
MaxReq == 3
MaxIntr == 2
MaxSig == 2
MaxOps == 3

VARIABLES
    chans,      \* struct fuse_chan, per channel
    sess,       \* struct fuse_session, per session
    cf,         \* CoreFoundation retain count of each DADiskRef
    aborted,    \* the process died in assert()
    fx,         \* what the last API call did, in order (op.destroy, CFRelease, free)
    nret,       \* per channel: calls of fuse_chan_retain so far
    nrel,       \* per channel: calls of fuse_chan_release so far
    owned,      \* per disk ref: retains owned by the callers of the API
    last,       \* the last API call, its arguments, result and the state before it
    hist,       \* the run of consecutive set_disk/disk calls, at most three
    pair,       \* progress of an add_chan/remove_chan pair
    lastflag    \* per session: the last of exit()/reset() called on it

apiVars == <<chans, sess, cf, aborted, fx, nret, nrel, owned, last, hist, pair,
             lastflag>>

\* fuse_session_loop_dispatch (lib/fuse_loop_dispatch.c)
VARIABLES
    d_pc,       \* where the reader thread is
    d_res,      \* int res
    d_buf,      \* what the scratch buffer buf holds (a request id, 0 for none)
    d_next,     \* the next request the kernel will deliver
    d_intr,     \* interrupted reads so far
    d_units,    \* the blocks submitted to the group, in order
    d_proc,     \* per request: fuse_session_process_buf invocations on it
    d_read,     \* the requests receive_buf returned, in order
    d_stop,     \* why the while loop ended
    d_ret       \* the value returned

dispVars == <<d_pc, d_res, d_buf, d_next, d_intr, d_units, d_proc, d_read, d_stop,
              d_ret>>

\* __fuse_loop_mt and its workers (lib/fuse_mt.c)
VARIABLES
    mt_created, \* threads start_thread has created so far
    mt_pc,      \* per worker: where it is in do_work
    mt_cmd,     \* the cmd variable of do_work, per storage slot
    mt_next,    \* the next request the kernel will deliver
    mt_reader,  \* per request: the worker __fuse_read_cmd returned it to (0: none)
    mt_proc,    \* per request: times it was passed to w->proc
    mt_by,      \* per request: the worker that passed it to w->proc (0: none)
    mt_term     \* "running", or how the process ended

mtVars == <<mt_created, mt_pc, mt_cmd, mt_next, mt_reader, mt_proc, mt_by, mt_term>>

\* mount, unmount, the mount callback and the signal path (lib/helper.c,
\* lib/fuse_signals.c)
VARIABLES
    pc,             \* per thread ("main", "sig", "cb"): where it is
    ret,            \* per thread: where fuse_unmount_common returns to
    t_ch,           \* per thread: its local struct fuse_chan *ch
    t_disk,         \* per thread: its local DADiskRef disk
    m_fuse,         \* fuse_setup_common's struct fuse *fuse is non-NULL
    mc_state,       \* the mount context: "none", "live" or "freed"
    mc_lock,        \* mc->lock: the thread holding it, or NULL
    mc_ch,          \* mc->ch
    cb_status,      \* the status the mount callback was called with
    fuse_instance,  \* static struct fuse_session *fuse_instance
    sig_sources,    \* fuse_unmount_sources[] are registered
    nsig,           \* unmount signals delivered so far
    kunmounts,      \* the calls of fuse_kern_unmount: <<thread, disk>>
    uaf,            \* the threads that touched freed memory
    crashed         \* the process died of it

mntVars == <<pc, ret, t_ch, t_disk, m_fuse, mc_state, mc_lock, mc_ch, cb_status,
             fuse_instance, sig_sources, nsig, kunmounts, uaf, crashed>>

mntRest == <<pc, ret, t_ch, t_disk, m_fuse, mc_state, mc_lock, mc_ch, cb_status,
             sig_sources, nsig, kunmounts, uaf, crashed>>

\* the signal API of lib/fuse_signals.c (fuse_instance is declared above)
VARIABLES
    sg_disp,    \* the process's disposition of each signal
    sg_src,     \* fuse_unmount_sources[i] is non-NULL
    sg_last,    \* the last call of the signal API, with the state before it
    sg_app      \* the dispositions before the library's first call; <<>> where not followed

sgVars == <<sg_disp, sg_src, sg_last, sg_app>>

\* the main-style entry of lib/helper.c (fuse_main_common)
VARIABLES
    m_loop,     \* the loop call: "none", "returned", or "exit1" (process ended)
    m_res,      \* fuse_main_common's res, the loop's result
    m_ret,      \* <<>> until fuse_main_common returns, then <<its value>>
    td_trace    \* the steps of fuse_teardown_common taken so far, in order

mnVars == <<m_loop, m_res, m_ret, td_trace>>

\* fuse_daemonize (lib/helper.c): the original process and the forked child
VARIABLES
    dz_fg,      \* the foreground argument
    dz_pc,      \* per process ("parent", "child"): where it is
    dz_pipe,    \* bytes written to waiter[1] and not yet read
    dz_init,    \* the steps the child has been through: <<step, it succeeded>>
    dz_nullfd,  \* open("/dev/null") gave a descriptor
    dz_app,     \* the application has a signal handler without SA_RESTART
    dz_ret      \* per process: <<>>, or <<what fuse_daemonize returned, perror>>

dzVars == <<dz_fg, dz_pc, dz_pipe, dz_init, dz_nullfd, dz_app, dz_ret>>

\* history of the dispatch loop
VARIABLES
    d_exit_at   \* <<>>, or <<the number of requests read when exit() was called>>

dxVars == <<d_exit_at>>

\* fuse_chan_disk / fuse_chan_set_disk called from several threads
VARIABLES
    dk_lock,    \* ch->lock: the thread holding it, or NULL
    dk_pc,      \* per thread: where it is in fuse_chan_disk / fuse_chan_set_disk
    dk_arg,     \* per thread: the disk argument of its fuse_chan_set_disk
    dk_loc,     \* per thread: its local (disk in fuse_chan_disk, old in set_disk)
    dk_own,     \* per thread and disk: the references the calling code owns
    dk_n,       \* the calls made so far, by all threads
    dk_bad      \* a CFRetain or CFRelease was applied to a deallocated object

dkVars == <<dk_lock, dk_pc, dk_arg, dk_loc, dk_own, dk_n, dk_bad>>

\* fuse_unmount_common built for a platform without the asynchronous mount
VARIABLES
    ch_fd,      \* ch->fd, per channel
    gu_call,    \* <<>>, or <<mountpoint, ch>> of the last fuse_unmount call
    gu_trace    \* what that call did, in order

guVars == <<ch_fd, gu_call, gu_trace>>

extVars == <<sgVars, mnVars, dzVars, dxVars, dkVars, guVars>>

vars == <<apiVars, dispVars, mtVars, mntVars, extVars>>

apiRest == <<chans, cf, aborted, fx, nret, nrel, owned, last, hist, pair, lastflag>>
apiGhost == <<owned, last, hist, pair, lastflag>>

nonApiVars == <<dispVars, mtVars, mntVars, extVars>>
nonDispVars == <<apiRest, mtVars, mntVars, extVars>>
nonMtVars == <<apiRest, dispVars, mntVars, extVars>>
nonMntVars == <<apiGhost, dispVars, mtVars, extVars>>
nonMntMain == <<apiGhost, dispVars, mtVars, sgVars, dzVars, dxVars, dkVars, guVars>>
nonSgVars == <<apiVars, dispVars, mtVars, mntRest, mnVars, dzVars, dxVars, dkVars, guVars>>
nonDzVars == <<apiVars, dispVars, mtVars, mntVars, sgVars, mnVars, dxVars, dkVars, guVars>>
nonDispExit == <<apiRest, mtVars, mntVars, sgVars, mnVars, dzVars, dkVars, guVars>>
mntNoKern == <<pc, ret, t_ch, t_disk, m_fuse, mc_state, mc_lock, mc_ch, cb_status,
               fuse_instance, sig_sources, nsig, uaf, crashed>>
nonDkVars == <<sess, aborted, fx, nret, nrel, owned, last, hist, pair, lastflag,
               dispVars, mtVars, mntVars, sgVars, mnVars, dzVars, dxVars, guVars>>
nonGuVars == <<cf, nret, nrel, owned, hist, lastflag,
               dispVars, mtVars, mntVars, sgVars, mnVars, dzVars, dxVars, dkVars>>

(***************************************************************************)
(* The state the API operators work on.                                    *)
(***************************************************************************)
World == [chans |-> chans, sess |-> sess, cf |-> cf, aborted |-> aborted,
          fx |-> <<>>, nret |-> nret, nrel |-> nrel]

Snapshot == [chans |-> chans, sess |-> sess, cf |-> cf]

Apply(W) ==
    /\ chans' = W.chans
    /\ sess' = W.sess
    /\ cf' = W.cf
    /\ aborted' = W.aborted
    /\ fx' = W.fx
    /\ nret' = W.nret
    /\ nrel' = W.nrel

\* fuse_chan_new_common: memset 0, retain_count = 1.
fuse_chan_new_common(has_destroy) ==
    [retain_count |-> 1, se |-> NULL, disk |-> NULL, op_destroy |-> has_destroy,
     freed |-> 0, destroyed |-> 0]

\* fuse_session_new: memset 0, then the operation table.
fuse_session_new(has_exit, has_exited) ==
    [ch |-> NULL, exited |-> 0, op_exit |-> has_exit, op_exited |-> has_exited,
     data |-> 0, freed |-> FALSE]

CFRetain(W, d) == [W EXCEPT !.cf[d] = @ + 1]

CFRelease(W, d) == [W EXCEPT !.cf[d] = @ - 1, !.fx = Append(@, <<"CFRelease", d>>)]

\* abort() from a failed assert().
AssertFail(W) == [W EXCEPT !.aborted = TRUE]

\* Mutant: built without the assertions, the binding is overwritten.
M_add_chan_overwrites(W, s, c) ==
    [W EXCEPT !.sess[s].ch = c, !.chans[c].se = s]

fuse_session_add_chan(W, s, c) ==
    IF W.sess[s].ch # NULL \/ W.chans[c].se # NULL
    THEN AssertFail(W)
    ELSE [W EXCEPT !.sess[s].ch = c, !.chans[c].se = s]

\* Mutant: only the session's side of the binding is cleared.
M_remove_chan_half(W, c) ==
    LET se == W.chans[c].se IN
    IF se # NULL
    THEN IF W.sess[se].ch # c
         THEN AssertFail(W)
         ELSE [W EXCEPT !.sess[se].ch = NULL]
    ELSE W

fuse_session_remove_chan(W, c) ==
    LET se == W.chans[c].se IN
    IF se # NULL
    THEN IF W.sess[se].ch # c
         THEN AssertFail(W)
         ELSE [W EXCEPT !.sess[se].ch = NULL, !.chans[c].se = NULL]
    ELSE W

fuse_session_next_chan(W, s) == W.sess[s].ch

fuse_chan_retain(W, c) ==
    [W EXCEPT !.chans[c].retain_count = @ + 1, !.nret[c] = @ + 1]

\* Mutant: the count is compared before the decrement (retain_count-- == 0).
M_release_postdecrement(W, c) ==
    LET cnt == W.chans[c].retain_count - 1
        release == (W.chans[c].retain_count = 0)
        W1 == [W EXCEPT !.chans[c].retain_count = cnt, !.nrel[c] = @ + 1]
    IN  IF release
        THEN LET W2 == IF W1.chans[c].disk # NULL
                       THEN CFRelease(W1, W1.chans[c].disk)
                       ELSE W1
             IN  [W2 EXCEPT !.chans[c].freed = @ + 1, !.fx = Append(@, <<"free", c>>)]
        ELSE W1

\* Mutant: the last release frees the channel without CFRelease(ch->disk).
M_release_leaks_disk(W, c) ==
    LET cnt == W.chans[c].retain_count - 1
        release == (cnt = 0)
        W1 == [W EXCEPT !.chans[c].retain_count = cnt, !.nrel[c] = @ + 1]
    IN  IF release
        THEN [W1 EXCEPT !.chans[c].freed = @ + 1, !.fx = Append(@, <<"free", c>>)]
        ELSE W1

fuse_chan_release(W, c) ==
    LET cnt == W.chans[c].retain_count - 1
        release == (cnt = 0)
        W1 == [W EXCEPT !.chans[c].retain_count = cnt, !.nrel[c] = @ + 1]
    IN  IF release
        THEN LET W2 == IF W1.chans[c].disk # NULL
                       THEN CFRelease(W1, W1.chans[c].disk)
                       ELSE W1
             IN  [W2 EXCEPT !.chans[c].freed = @ + 1, !.fx = Append(@, <<"free", c>>)]
        ELSE W1

\* op.destroy(ch), when the table has one.
chan_op_destroy(W, c) ==
    IF W.chans[c].op_destroy
    THEN [W EXCEPT !.chans[c].destroyed = @ + 1, !.fx = Append(@, <<"op.destroy", c>>)]
    ELSE W

fuse_chan_destroy(W, c) ==
    LET W1 == fuse_session_remove_chan(W, c) IN
    IF W1.aborted THEN W1
    ELSE fuse_chan_release(chan_op_destroy(W1, c), c)

\* Mutant: the unmount destroys the channel whether or not a disk is attached.
M_unmount_always_destroys(disk) == TRUE

\* fuse_unmount_common: if (disk) CFRelease(disk); else fuse_chan_destroy(ch);
unmount_destroys(disk) == disk = NULL

\* DADiskRef fuse_chan_disk(ch): the disk, retained, or NULL.
fuse_chan_disk(W, c) ==
    LET disk == W.chans[c].disk IN
    [w |-> IF disk # NULL THEN CFRetain(W, disk) ELSE W, ret |-> disk]

\* Mutant: the previous disk is overwritten without CFRelease(old).
M_set_disk_leaks_old(W, c, disk) ==
    LET W1 == IF disk # NULL THEN CFRetain(W, disk) ELSE W
    IN  [W1 EXCEPT !.chans[c].disk = disk]

fuse_chan_set_disk(W, c, disk) ==
    LET W1 == IF disk # NULL THEN CFRetain(W, disk) ELSE W
        old == W1.chans[c].disk
        W2 == [W1 EXCEPT !.chans[c].disk = disk]
    IN  IF old # NULL THEN CFRelease(W2, old) ELSE W2

fuse_chan_cleardisk(W, c) == fuse_chan_set_disk(W, c, NULL)

\* se->op.exit(se->data, val): the application's callback; what it leaves in its
\* own data is the application's business.
session_op_exit(W, s, appval) ==
    IF W.sess[s].op_exit THEN [W EXCEPT !.sess[s].data = appval] ELSE W

fuse_session_exit(W, s, appval) ==
    [session_op_exit(W, s, appval) EXCEPT !.sess[s].exited = 1]

\* Mutant: reset leaves the flag set.
M_reset_keeps_flag(W, s, appval) ==
    session_op_exit(W, s, appval)

fuse_session_reset(W, s, appval) ==
    [session_op_exit(W, s, appval) EXCEPT !.sess[s].exited = 0]

fuse_session_exited(W, s) ==
    IF W.sess[s].op_exited THEN W.sess[s].data ELSE W.sess[s].exited

\* se->op.destroy(se->data), then the bound channel, then free(se).
fuse_session_destroy(W, s) ==
    LET W0 == [W EXCEPT !.fx = Append(@, <<"se.op.destroy", s>>)]
        W1 == IF W0.sess[s].ch # NULL THEN fuse_chan_destroy(W0, W0.sess[s].ch) ELSE W0
    IN  IF W1.aborted THEN W1 ELSE [W1 EXCEPT !.sess[s].freed = TRUE]

(***************************************************************************)
(* Spec: the channel API called on one channel, any call in any order      *)
(* while the channel exists.  The callers own the disk references they     *)
(* pass in and the ones fuse_chan_disk returns to them.                    *)
(***************************************************************************)
TheChan == "c1"

Live(c) == chans[c].freed = 0

NoCall == [op |-> "none", arg |-> NULL, arg2 |-> NULL, ret |-> NULL, pre |-> NULL]

NoPair == [stage |-> 0, s |-> NULL, c |-> NULL, pre |-> NULL, reps |-> 0]

Called(op, a, b, r) ==
    last' = [op |-> op, arg |-> a, arg2 |-> b, ret |-> r, pre |-> Snapshot]

Push(h, e) == IF Len(h) < 3 THEN Append(h, e) ELSE Append(Tail(h), e)

ApiInit ==
    /\ \E h \in BOOLEAN :
          chans = [c \in Chans |->
                      fuse_chan_new_common(IF c = TheChan THEN h ELSE TRUE)]
    /\ sess = [s \in Sessions |-> fuse_session_new(FALSE, FALSE)]
    /\ cf = [d \in DiskRefs |-> 1]
    /\ owned = [d \in DiskRefs |-> 1]
    /\ aborted = FALSE
    /\ fx = <<>>
    /\ nret = [c \in Chans |-> 0]
    /\ nrel = [c \in Chans |-> 0]
    /\ last = NoCall
    /\ hist = <<>>
    /\ pair = NoPair
    /\ lastflag = [s \in Sessions |-> "none"]

\* The API objects as constructed, untouched.
ApiIdle ==
    /\ chans = [c \in Chans |-> fuse_chan_new_common(TRUE)]
    /\ sess = [s \in Sessions |-> fuse_session_new(FALSE, FALSE)]
    /\ cf = [d \in DiskRefs |-> 1]
    /\ owned = [d \in DiskRefs |-> 1]
    /\ aborted = FALSE
    /\ fx = <<>>
    /\ nret = [c \in Chans |-> 0]
    /\ nrel = [c \in Chans |-> 0]
    /\ last = NoCall
    /\ hist = <<>>
    /\ pair = NoPair
    /\ lastflag = [s \in Sessions |-> "none"]

Requests == 1..MaxReq

\* The dispatch loop before fuse_session_loop_dispatch is called.
DispIdle ==
    /\ d_pc = "start"
    /\ d_res = 0
    /\ d_buf = 0
    /\ d_next = 1
    /\ d_intr = 0
    /\ d_units = <<>>
    /\ d_proc = [r \in Requests |-> 0]
    /\ d_read = <<>>
    /\ d_stop = "none"
    /\ d_ret = NULL

FUSE_NUM_WORKERS == 5

Workers == 1..FUSE_NUM_WORKERS

\* The worker pool before __fuse_loop_mt is called.
MtIdle ==
    /\ mt_created = 0
    /\ mt_pc = [w \in Workers |-> "none"]
    /\ mt_cmd = [w \in Workers |-> 0]
    /\ mt_next = 1
    /\ mt_reader = [r \in Requests |-> 0]
    /\ mt_proc = [r \in Requests |-> 0]
    /\ mt_by = [r \in Requests |-> 0]
    /\ mt_term = "running"

Threads == {"main", "sig", "cb"}

\* Nothing mounted yet.
MntIdle ==
    /\ pc = [t \in Threads |-> IF t = "main" THEN "start" ELSE "idle"]
    /\ ret = [t \in Threads |-> "idle"]
    /\ t_ch = [t \in Threads |-> NULL]
    /\ t_disk = [t \in Threads |-> NULL]
    /\ m_fuse = FALSE
    /\ mc_state = "none"
    /\ mc_lock = NULL
    /\ mc_ch = NULL
    /\ cb_status = NULL
    /\ fuse_instance = NULL
    /\ sig_sources = FALSE
    /\ nsig = 0
    /\ kunmounts = <<>>
    /\ uaf = {}
    /\ crashed = FALSE

\* The signals the library handles, fuse_unmount_signals[] first.
UnmountSignals == <<"SIGHUP", "SIGINT", "SIGTERM">>
Signals == {"SIGHUP", "SIGINT", "SIGTERM", "SIGPIPE"}
Dispositions == {"SIG_DFL", "SIG_IGN", "app_handler"}

NoSigCall == [op |-> "none", se |-> NULL, ret |-> 0, err |-> {}, pre |-> NULL]

\* No signal API call yet; every disposition is the default.
SgIdle ==
    /\ sg_disp = [g \in Signals |-> "SIG_DFL"]
    /\ sg_src = [i \in DOMAIN UnmountSignals |-> FALSE]
    /\ sg_last = NoSigCall
    /\ sg_app = <<>>

\* fuse_main_common has not been entered.
MnIdle ==
    /\ m_loop = "none"
    /\ m_res = 0
    /\ m_ret = <<>>
    /\ td_trace = <<>>

Procs == {"parent", "child"}

\* fuse_daemonize has not been called.
DzIdle ==
    /\ dz_fg = FALSE
    /\ dz_pc = [p \in Procs |-> IF p = "parent" THEN "start" ELSE "unborn"]
    /\ dz_pipe = 0
    /\ dz_init = {}
    /\ dz_nullfd = FALSE
    /\ dz_app = FALSE
    /\ dz_ret = [p \in Procs |-> <<>>]

DxIdle == d_exit_at = <<>>

DkThreads == {"t1", "t2", "t3"}
DkDisks == {"ref_a", "ref_b"}

\* No thread is inside fuse_chan_disk or fuse_chan_set_disk.
DkIdle ==
    /\ dk_lock = NULL
    /\ dk_pc = [t \in DkThreads |-> "idle"]
    /\ dk_arg = [t \in DkThreads |-> NULL]
    /\ dk_loc = [t \in DkThreads |-> NULL]
    /\ dk_own = [t \in DkThreads |-> [d \in DkDisks |-> 0]]
    /\ dk_n = 0
    /\ dk_bad = FALSE

Fds == {3, 4}

\* No fuse_unmount call has been made.
GuIdle ==
    /\ ch_fd = [c \in Chans |-> 3]
    /\ gu_call = <<>>
    /\ gu_trace = <<>>

ExtIdle == SgIdle /\ MnIdle /\ DzIdle /\ DxIdle /\ DkIdle /\ GuIdle

Init == ApiInit /\ DispIdle /\ MtIdle /\ MntIdle /\ ExtIdle

Retain ==
    /\ ~aborted /\ Live(TheChan)
    /\ nret[TheChan] < MaxRetain
    /\ Apply(fuse_chan_retain(World, TheChan))
    /\ Called("retain", TheChan, NULL, NULL)
    /\ hist' = <<>>
    /\ UNCHANGED <<owned, pair, lastflag, nonApiVars>>

Release ==
    /\ ~aborted /\ Live(TheChan)
    /\ Apply(fuse_chan_release(World, TheChan))
    /\ Called("release", TheChan, NULL, NULL)
    /\ hist' = <<>>
    /\ UNCHANGED <<owned, pair, lastflag, nonApiVars>>

ChanDestroy ==
    /\ ~aborted /\ Live(TheChan)
    /\ Apply(fuse_chan_destroy(World, TheChan))
    /\ Called("chan_destroy", TheChan, NULL, NULL)
    /\ hist' = <<>>
    /\ UNCHANGED <<owned, pair, lastflag, nonApiVars>>

SetDisk ==
    /\ ~aborted /\ Live(TheChan)
    /\ \E d \in DiskRefs \cup {NULL} :
          /\ d # NULL => owned[d] >= 1 /\ cf[d] < MaxCF
          /\ Apply(fuse_chan_set_disk(World, TheChan, d))
          /\ Called("set_disk", TheChan, d, NULL)
          /\ hist' = Push(hist, [op |-> "set_disk", arg |-> d, ret |-> NULL,
                                 pre |-> Snapshot])
    /\ UNCHANGED <<owned, pair, lastflag, nonApiVars>>

GetDisk ==
    /\ ~aborted /\ Live(TheChan)
    /\ LET r == fuse_chan_disk(World, TheChan) IN
          /\ r.ret # NULL => cf[r.ret] < MaxCF
          /\ Apply(r.w)
          /\ Called("disk", TheChan, NULL, r.ret)
          /\ hist' = Push(hist, [op |-> "disk", arg |-> NULL, ret |-> r.ret,
                                 pre |-> Snapshot])
          /\ owned' = IF r.ret # NULL THEN [owned EXCEPT ![r.ret] = @ + 1] ELSE owned
    /\ UNCHANGED <<pair, lastflag, nonApiVars>>

\* A caller drops one of the disk references it owns.
CallerCFRelease ==
    /\ ~aborted
    /\ \E d \in DiskRefs :
          /\ owned[d] >= 1
          /\ Apply(CFRelease(World, d))
          /\ owned' = [owned EXCEPT ![d] = @ - 1]
          /\ Called("CFRelease", d, NULL, NULL)
    /\ hist' = <<>>
    /\ UNCHANGED <<pair, lastflag, nonApiVars>>

Next ==
    \/ Retain
    \/ Release
    \/ ChanDestroy
    \/ SetDisk
    \/ GetDisk
    \/ CallerCFRelease

Spec == Init /\ [][Next]_vars

FxAt(tag, c) == {i \in 1..Len(fx) : fx[i] = <<tag, c>>}

\* C1: over every sequence of retain/release calls on a channel created with
\* the implicit count of 1, the channel is freed exactly when the number of
\* release calls equals 1 plus the number of retain calls, and free() runs at
\* most once.
C1_FreedIffReleasesMatchRetains ==
    /\ (chans[TheChan].freed >= 1) <=> (nrel[TheChan] = 1 + nret[TheChan])
    /\ chans[TheChan].freed <= 1
    /\ chans[TheChan].freed = 0 =>
          chans[TheChan].retain_count = 1 + nret[TheChan] - nrel[TheChan]

C1_Witness ==
    /\ chans[TheChan].freed = 1
    /\ nret[TheChan] >= 2
    /\ nrel[TheChan] = 1 + nret[TheChan]

\* C6 as claimed: whenever a release() frees the channel and the table has a
\* destroy callback, that callback was invoked by the call, before the free.
C6_ReleaseToZeroInvokesDestroy ==
    \A i \in FxAt("free", TheChan) :
        chans[TheChan].op_destroy =>
            \E j \in FxAt("op.destroy", TheChan) : j < i

\* C6 amended: fuse_chan_destroy invokes the table's destroy callback (when
\* there is one) before it calls release(); release() itself never invokes it.
\* A release() that drops the count to zero releases the held disk-volume
\* reference, if any, right before the channel is freed, and the free is the
\* last thing the call does.
C6_DestroyThenReleaseFreesDisk ==
    /\ last.op = "release" => FxAt("op.destroy", TheChan) = {}
    /\ (last.op = "chan_destroy" /\ chans[TheChan].op_destroy) =>
          (Len(fx) >= 1 /\ fx[1] = <<"op.destroy", TheChan>>)
    /\ \A i \in FxAt("free", TheChan) :
          /\ i = Len(fx)
          /\ last.op \in {"release", "chan_destroy"}
          /\ LET d == last.pre.chans[TheChan].disk IN
                d # NULL =>
                  /\ i > 1
                  /\ fx[i - 1] = <<"CFRelease", d>>
                  /\ cf[d] = last.pre.cf[d] - 1

C6_Witness ==
    /\ last.op = "release"
    /\ FxAt("free", TheChan) # {}
    /\ chans[TheChan].op_destroy
    /\ last.pre.chans[TheChan].disk # NULL

\* C10: set_disk(ref_a), set_disk(ref_b), disk() in a row, on a channel that
\* held neither reference before: disk() returns ref_b; the second set_disk
\* lowers ref_a's retain count by exactly one, back to its value before the
\* first set_disk; ref_b's count ends two above its starting value, one for
\* the channel's hold and one for the reference disk() returned.
C10_Case ==
    /\ Len(hist) = 3
    /\ hist[1].op = "set_disk" /\ hist[2].op = "set_disk" /\ hist[3].op = "disk"
    /\ hist[1].arg # NULL /\ hist[2].arg # NULL
    /\ hist[1].arg # hist[2].arg
    /\ hist[1].pre.chans[TheChan].disk \notin {hist[1].arg, hist[2].arg}

C10_SetSetGetDisk ==
    C10_Case =>
        LET a == hist[1].arg
            b == hist[2].arg
        IN  /\ hist[3].ret = b
            /\ chans[TheChan].disk = b
            /\ hist[2].pre.cf[a] = hist[1].pre.cf[a] + 1
            /\ hist[3].pre.cf[a] = hist[2].pre.cf[a] - 1
            /\ cf[a] = hist[1].pre.cf[a]
            /\ hist[3].pre.cf[b] = hist[1].pre.cf[b] + 1
            /\ cf[b] = hist[1].pre.cf[b] + 2

C10_Witness ==
    /\ C10_Case
    /\ hist[1].arg = "ref_a"
    /\ hist[3].ret = "ref_b"


(***************************************************************************)
(* SpecSess: sessions and channels bound and unbound by add_chan,          *)
(* remove_chan, fuse_chan_destroy and fuse_session_destroy, and the        *)
(* exited flag driven by exit() and reset().  A channel starts with the    *)
(* count of 1, or of 2 when a pending mount callback holds a reference.    *)
(***************************************************************************)
InitSess ==
    /\ \E rc \in [Chans -> {1, 2}] :
          chans = [c \in Chans |->
                      [fuse_chan_new_common(TRUE) EXCEPT !.retain_count = rc[c]]]
    /\ \E he \in BOOLEAN, hx \in BOOLEAN :
          sess = [s \in Sessions |->
                     IF s = "s1" THEN fuse_session_new(he, hx)
                                 ELSE fuse_session_new(FALSE, FALSE)]
    /\ cf = [d \in DiskRefs |-> 1]
    /\ owned = [d \in DiskRefs |-> 1]
    /\ aborted = FALSE
    /\ fx = <<>>
    /\ nret = [c \in Chans |-> 0]
    /\ nrel = [c \in Chans |-> 0]
    /\ last = NoCall
    /\ hist = <<>>
    /\ pair = NoPair
    /\ lastflag = [s \in Sessions |-> "none"]
    /\ DispIdle /\ MtIdle /\ MntIdle /\ ExtIdle

LiveSess(s) == ~sess[s].freed

AddChan(s, c) ==
    /\ ~aborted /\ LiveSess(s) /\ Live(c)
    /\ LET W == fuse_session_add_chan(World, s, c) IN
          /\ Apply(W)
          /\ pair' = IF W.aborted THEN NoPair
                     ELSE [stage |-> 1, s |-> s, c |-> c,
                           pre |-> IF pair.stage = 2 /\ pair.s = s /\ pair.c = c
                                   THEN pair.pre ELSE Snapshot,
                           reps |-> IF pair.stage = 2 /\ pair.s = s /\ pair.c = c
                                    THEN pair.reps ELSE 0]
    /\ Called("add", s, c, NULL)
    /\ UNCHANGED <<owned, hist, lastflag, nonApiVars>>

RemoveChan(c) ==
    /\ ~aborted /\ Live(c)
    /\ Apply(fuse_session_remove_chan(World, c))
    /\ pair' = IF pair.stage = 1 /\ pair.c = c
               THEN [pair EXCEPT !.stage = 2,
                                 !.reps = IF @ < MaxReps THEN @ + 1 ELSE @]
               ELSE NoPair
    /\ Called("remove", NULL, c, NULL)
    /\ UNCHANGED <<owned, hist, lastflag, nonApiVars>>

SessChanDestroy(c) ==
    /\ ~aborted /\ Live(c)
    /\ Apply(fuse_chan_destroy(World, c))
    /\ pair' = NoPair
    /\ Called("chan_destroy", NULL, c, NULL)
    /\ UNCHANGED <<owned, hist, lastflag, nonApiVars>>

SessionDestroy(s) ==
    /\ ~aborted /\ LiveSess(s)
    /\ Apply(fuse_session_destroy(World, s))
    /\ pair' = NoPair
    /\ Called("session_destroy", s, NULL, NULL)
    /\ UNCHANGED <<owned, hist, lastflag, nonApiVars>>

SessionExit(s) ==
    /\ ~aborted /\ LiveSess(s)
    /\ \E appval \in {0, 1} :
          /\ sess[s].op_exit \/ appval = 0
          /\ Apply(fuse_session_exit(World, s, appval))
    /\ lastflag' = [lastflag EXCEPT ![s] = "exit"]
    /\ pair' = NoPair
    /\ Called("exit", s, NULL, NULL)
    /\ UNCHANGED <<owned, hist, nonApiVars>>

SessionReset(s) ==
    /\ ~aborted /\ LiveSess(s)
    /\ \E appval \in {0, 1} :
          /\ sess[s].op_exit \/ appval = 0
          /\ Apply(fuse_session_reset(World, s, appval))
    /\ lastflag' = [lastflag EXCEPT ![s] = "reset"]
    /\ pair' = NoPair
    /\ Called("reset", s, NULL, NULL)
    /\ UNCHANGED <<owned, hist, nonApiVars>>

NextSess ==
    \/ \E s \in Sessions, c \in Chans : AddChan(s, c)
    \/ \E c \in Chans : RemoveChan(c)
    \/ \E c \in Chans : SessChanDestroy(c)
    \/ \E s \in Sessions : SessionDestroy(s)
    \/ \E s \in Sessions : SessionExit(s)
    \/ \E s \in Sessions : SessionReset(s)

SpecSess == InitSess /\ [][NextSess]_vars

Bound(s, c) == sess[s].ch = c

\* C7: in every state reached by add_chan, remove_chan, fuse_chan_destroy and
\* fuse_session_destroy the binding is mutual (se->ch = c exactly when
\* c->se = se, and both ends exist), so a session holds at most one channel
\* and a channel at most one session; add_chan with a session or a channel
\* that is already bound dies in assert() and leaves every binding as it was,
\* and no other call dies.
C7_MutualBinding ==
    /\ \A s \in Sessions, c \in Chans :
          (LiveSess(s) /\ Live(c)) => (sess[s].ch = c <=> chans[c].se = s)
    /\ \A s \in Sessions :
          (LiveSess(s) /\ sess[s].ch # NULL) => Live(sess[s].ch)
    /\ \A c \in Chans :
          (Live(c) /\ chans[c].se # NULL) => LiveSess(chans[c].se)
    /\ \A s \in Sessions :
          Cardinality({c \in Chans : Live(c) /\ chans[c].se = s}) <= 1
    /\ aborted <=>
          /\ last.op = "add"
          /\ \/ last.pre.sess[last.arg].ch # NULL
             \/ last.pre.chans[last.arg2].se # NULL
    /\ aborted => (sess = last.pre.sess /\ chans = last.pre.chans)

C7_Witness ==
    /\ aborted
    /\ last.op = "add"
    /\ \E s \in Sessions, c \in Chans : Bound(s, c) /\ chans[c].se = s
    /\ \E c \in Chans : ~Live(c)
    /\ \E s \in Sessions : ~LiveSess(s)

\* C8: add_chan(se, ch) followed at once by remove_chan(ch) leaves every
\* session and channel exactly as before the pair (no binding, exited flag and
\* every other field unchanged) and does not die, so the pair can be repeated.
C8_AddRemoveRestores ==
    pair.stage = 2 =>
        /\ ~aborted
        /\ chans = pair.pre.chans
        /\ sess = pair.pre.sess
        /\ sess[pair.s].ch = NULL
        /\ chans[pair.c].se = NULL

C8_Witness ==
    /\ pair.stage = 2
    /\ pair.reps >= 2
    /\ sess[pair.s].exited = 1
    /\ last.pre.sess[pair.s].ch = pair.c

\* C9: for a session whose table has no exited override, exited() reflects the
\* last of exit()/reset() called on it: 1 after exit(), 0 after reset(), and 0
\* on a fresh session.
C9_ExitedReflectsLastCall ==
    \A s \in Sessions :
        (LiveSess(s) /\ ~sess[s].op_exited) =>
            fuse_session_exited(World, s) = (IF lastflag[s] = "exit" THEN 1 ELSE 0)

C9_Witness ==
    \E s \in Sessions :
        /\ LiveSess(s) /\ ~sess[s].op_exited /\ sess[s].op_exit
        /\ last.op = "reset" /\ last.arg = s
        /\ last.pre.sess[s].exited = 1
        /\ fuse_session_exited(World, s) = 0


(***************************************************************************)
(* SpecDisp: fuse_session_loop_dispatch.  One reader thread runs the       *)
(* while loop; every block handed to dispatch_group_async runs on the      *)
(* concurrent queue on its own; another thread may call                    *)
(* fuse_session_exit at any time.  The kernel delivers the requests        *)
(* 1..MaxReq in order; a read may also be interrupted, return 0 or fail.   *)
(***************************************************************************)
TheSess == "s1"

EINTR == 4

\* errno values other than EINTR a read may fail with (EIO, ENODEV)
OtherErrnos == {5, 19}

\* char *process_buf = malloc(res); memcpy(process_buf, fbuf.mem, res);
\* fbuf.mem = process_buf; the block captures its own copy of fbuf.
\* Mutant: the block is given the scratch buffer itself.
M_make_unit_nocopy(scratch) == [mem |-> "scratch", data |-> scratch, st |-> "queued"]

make_unit(scratch) == [mem |-> "own", data |-> scratch, st |-> "queued"]

\* The request a block passes to fuse_session_process_buf.
unit_payload(u, scratch) == IF u.mem = "own" THEN u.data ELSE scratch

\* dispatch_group_wait(group, DISPATCH_TIME_FOREVER) returns (with 0) once
\* every block of the group has finished.
\* Mutant: the wait returns while blocks are still outstanding.
M_group_wait_nowait(units) == TRUE

group_wait_done(units) == \A i \in 1..Len(units) : units[i].st = "done"

\* return res < 0 ? -1 : 0;
loop_return(res) == IF res < 0 THEN 0 - 1 ELSE 0

InitDisp == ApiIdle /\ DispIdle /\ MtIdle /\ MntIdle /\ ExtIdle

\* buf = malloc(bufsize); queue = dispatch_queue_create(); group =
\* dispatch_group_create(): any of them may fail, res = -1, goto out.
DSetup ==
    /\ d_pc = "start"
    /\ \/ d_pc' = "test" /\ UNCHANGED d_res
       \/ d_pc' = "out" /\ d_res' = 0 - 1
    /\ UNCHANGED <<d_buf, d_next, d_intr, d_units, d_proc, d_read, d_stop, d_ret>>
    /\ UNCHANGED <<sess, nonDispVars>>

\* Mutant: the loop goes on whatever the session reports.
M_loop_ignores_exited(exited) == TRUE

\* while (!fuse_session_exited(se))
loop_continues(exited) == exited = 0

DTest ==
    /\ d_pc = "test"
    /\ IF loop_continues(fuse_session_exited(World, TheSess))
       THEN d_pc' = "recv" /\ UNCHANGED d_stop
       ELSE d_pc' = "wait" /\ d_stop' = "exit"
    /\ UNCHANGED <<d_res, d_buf, d_next, d_intr, d_units, d_proc, d_read, d_ret>>
    /\ UNCHANGED <<sess, nonDispVars>>

\* res = fuse_session_receive_buf(se, &fbuf, &tmpch) returns a request.
DRecvReq ==
    /\ d_pc = "recv"
    /\ d_next <= MaxReq
    /\ d_res' = 1
    /\ d_buf' = d_next
    /\ d_next' = d_next + 1
    /\ d_read' = Append(d_read, d_next)
    /\ d_pc' = "alloc"
    /\ UNCHANGED <<d_intr, d_units, d_proc, d_stop, d_ret>>
    /\ UNCHANGED <<sess, nonDispVars>>

\* res == -EINTR: continue.
DRecvIntr ==
    /\ d_pc = "recv"
    /\ d_intr < MaxIntr
    /\ d_intr' = d_intr + 1
    /\ d_res' = 0 - EINTR
    /\ d_pc' = "test"
    /\ UNCHANGED <<d_buf, d_next, d_units, d_proc, d_read, d_stop, d_ret>>
    /\ UNCHANGED <<sess, nonDispVars>>

\* res <= 0 for another reason: break.
DRecvEnd ==
    /\ d_pc = "recv"
    /\ \E r \in {0} \cup {0 - e : e \in OtherErrnos} : d_res' = r
    /\ d_stop' = "read"
    /\ d_pc' = "wait"
    /\ UNCHANGED <<d_buf, d_next, d_intr, d_units, d_proc, d_read, d_ret>>
    /\ UNCHANGED <<sess, nonDispVars>>

\* process_buf = malloc(res) succeeds; copy; dispatch_group_async(...).
DSubmit ==
    /\ d_pc = "alloc"
    /\ d_units' = Append(d_units, make_unit(d_buf))
    /\ d_pc' = "test"
    /\ UNCHANGED <<d_res, d_buf, d_next, d_intr, d_proc, d_read, d_stop, d_ret>>
    /\ UNCHANGED <<sess, nonDispVars>>

\* process_buf = malloc(res) fails: res = -1; break.
DAllocFail ==
    /\ d_pc = "alloc"
    /\ d_res' = 0 - 1
    /\ d_stop' = "alloc"
    /\ d_pc' = "wait"
    /\ UNCHANGED <<d_buf, d_next, d_intr, d_units, d_proc, d_read, d_ret>>
    /\ UNCHANGED <<sess, nonDispVars>>

\* A block starts on the queue: fuse_session_process_buf(se, &fbuf, tmpch).
DUnitStart(i) ==
    /\ i \in 1..Len(d_units)
    /\ d_units[i].st = "queued"
    /\ d_units' = [d_units EXCEPT ![i].st = "running"]
    /\ LET r == unit_payload(d_units[i], d_buf) IN
          d_proc' = [d_proc EXCEPT ![r] = @ + 1]
    /\ UNCHANGED <<d_pc, d_res, d_buf, d_next, d_intr, d_read, d_stop, d_ret>>
    /\ UNCHANGED <<sess, nonDispVars>>

\* The block's processing returns; free(fbuf.mem).
DUnitFinish(i) ==
    /\ i \in 1..Len(d_units)
    /\ d_units[i].st = "running"
    /\ d_units' = [d_units EXCEPT ![i].st = "done"]
    /\ UNCHANGED <<d_pc, d_res, d_buf, d_next, d_intr, d_proc, d_read, d_stop, d_ret>>
    /\ UNCHANGED <<sess, nonDispVars>>

\* dispatch_group_wait(group, DISPATCH_TIME_FOREVER)
DWait ==
    /\ d_pc = "wait"
    /\ group_wait_done(d_units)
    /\ d_pc' = "out"
    /\ UNCHANGED <<d_res, d_buf, d_next, d_intr, d_units, d_proc, d_read, d_stop, d_ret>>
    /\ UNCHANGED <<sess, nonDispVars>>

\* out: free(buf); ...; fuse_session_reset(se); return res < 0 ? -1 : 0;
DReturn ==
    /\ d_pc = "out"
    /\ sess' = fuse_session_reset(World, TheSess, 0).sess
    /\ d_ret' = loop_return(d_res)
    /\ d_pc' = "returned"
    /\ UNCHANGED <<d_res, d_buf, d_next, d_intr, d_units, d_proc, d_read, d_stop>>
    /\ UNCHANGED nonDispVars

\* Another thread (a request handler, a signal path) calls fuse_session_exit.
DExit ==
    /\ d_pc # "returned"
    /\ sess[TheSess].exited = 0
    /\ sess' = fuse_session_exit(World, TheSess, 0).sess
    /\ d_exit_at' = <<Len(d_read)>>
    /\ UNCHANGED dispVars
    /\ UNCHANGED nonDispExit

NextDisp ==
    \/ DSetup
    \/ DTest
    \/ DRecvReq
    \/ DRecvIntr
    \/ DRecvEnd
    \/ DSubmit
    \/ DAllocFail
    \/ \E i \in 1..MaxReq : DUnitStart(i)
    \/ \E i \in 1..MaxReq : DUnitFinish(i)
    \/ DWait
    \/ DReturn
    \/ DExit

SpecDisp == InitDisp /\ [][NextDisp]_vars

DRange(q) == {q[i] : i \in 1..Len(q)}

\* C2: when the loop stopped because the session exited or because a read
\* ended it, and K requests had been read, the processor was invoked exactly
\* K times, once on each request read and on nothing else, and every one of
\* the K blocks had finished before dispatch_group_wait returned, hence
\* before fuse_session_loop_dispatch returns; this holds wherever the exit
\* falls among the requests.  (When the loop stops on a failed allocation the
\* request just read is the one left unprocessed.)
C2_ExactlyOncePerRequestRead ==
    d_pc \in {"out", "returned"} =>
        /\ group_wait_done(d_units)
        /\ d_stop \in {"exit", "read"} =>
              /\ Len(d_units) = Len(d_read)
              /\ \A r \in Requests :
                    d_proc[r] = (IF r \in DRange(d_read) THEN 1 ELSE 0)
        /\ d_stop = "alloc" =>
              /\ Len(d_units) = Len(d_read) - 1
              /\ \A r \in Requests :
                    d_proc[r] = (IF r \in DRange(d_read) /\ r # d_read[Len(d_read)]
                                 THEN 1 ELSE 0)

C2_Witness ==
    /\ d_pc = "returned"
    /\ d_stop = "exit"
    /\ Len(d_read) = 2
    /\ d_intr >= 1
    /\ d_proc[1] = 1 /\ d_proc[2] = 1


\* C17 as claimed: when the loop ended because the session reported exited,
\* fuse_session_loop_dispatch returns 0, however many receives were
\* interrupted before.
C17_InterruptedReadNotSurfaced ==
    (d_pc = "returned" /\ d_stop = "exit") => d_ret = 0

\* The requests read since fuse_session_exit was called.
LateReads == IF d_exit_at = <<>> THEN 0 ELSE Len(d_read) - d_exit_at[1]

\* C18 as claimed: once fuse_session_exit has been called, the loop reads no
\* further request.
C18_NoReadAfterExit == LateReads = 0

\* C18, amended: after fuse_session_exit at most one further request is read
\* and dispatched (the receive the loop had already decided on when exit was
\* called); once the loop has seen the flag it reads nothing more, and every
\* unit submitted, before or after the exit, has been processed once and has
\* finished when the function returns.
C18_AtMostOneReadAfterExit ==
    /\ LateReads <= 1
    /\ (d_stop = "exit" /\ d_pc \in {"wait", "out", "returned"}) =>
          Len(d_units) = Len(d_read)
    /\ (d_stop = "exit" /\ d_pc \in {"out", "returned"}) =>
          /\ group_wait_done(d_units)
          /\ \A r \in DRange(d_read) : d_proc[r] = 1

C18_Witness ==
    /\ d_pc = "returned"
    /\ d_stop = "exit"
    /\ d_exit_at = <<1>>
    /\ Len(d_read) = 2
    /\ d_proc[1] = 1 /\ d_proc[2] = 1

(***************************************************************************)
(* SpecMt: __fuse_loop_mt.  The caller creates FUSE_NUM_WORKERS - 1        *)
(* threads and then runs do_work itself; every worker loops over           *)
(* __fuse_read_cmd and w->proc.  __fuse_read_cmd hands each request the    *)
(* kernel delivers to one caller, or returns NULL.  Some thread may call   *)
(* fuse_session_exit at any time.                                          *)
(***************************************************************************)
\* struct fuse_cmd *cmd is a local of do_work: every worker has its own.
\* Mutant: cmd is kept in the struct fuse_worker all workers share.
M_cmd_slot_shared(w) == 1

cmd_slot(w) == w

\* if (cmd == NULL) exit(1); else w->proc(w->f, cmd, w->data)
\* (a cmd is a request number; 0 stands for the NULL pointer)
do_work_after_read(cmd) == IF cmd = 0 THEN "exit1" ELSE "have"

\* The thread that calls __fuse_loop_mt runs do_work as the last worker.
MainWorker == FUSE_NUM_WORKERS

InitMt == ApiIdle /\ DispIdle /\ MtIdle /\ MntIdle /\ ExtIdle

\* for (i = 1; i < FUSE_NUM_WORKERS; i++) start_thread(w): pthread_create
\* succeeds and the thread enters do_work.
MStartThread ==
    /\ mt_term = "running"
    /\ mt_created < FUSE_NUM_WORKERS - 1
    /\ mt_created' = mt_created + 1
    /\ mt_pc' = [mt_pc EXCEPT ![mt_created + 1] = "read"]
    /\ UNCHANGED <<mt_cmd, mt_next, mt_reader, mt_proc, mt_by, mt_term>>
    /\ UNCHANGED <<sess, nonMtVars>>

\* pthread_create fails: exit(1).
MStartThreadFail ==
    /\ mt_term = "running"
    /\ mt_created < FUSE_NUM_WORKERS - 1
    /\ mt_term' = "exit1"
    /\ UNCHANGED <<mt_created, mt_pc, mt_cmd, mt_next, mt_reader, mt_proc, mt_by>>
    /\ UNCHANGED <<sess, nonMtVars>>

\* do_work(w) in the calling thread, after the loop over start_thread.
MMainDoWork ==
    /\ mt_term = "running"
    /\ mt_created = FUSE_NUM_WORKERS - 1
    /\ mt_pc[MainWorker] = "none"
    /\ mt_pc' = [mt_pc EXCEPT ![MainWorker] = "read"]
    /\ UNCHANGED <<mt_created, mt_cmd, mt_next, mt_reader, mt_proc, mt_by, mt_term>>
    /\ UNCHANGED <<sess, nonMtVars>>

\* cmd = __fuse_read_cmd(w->f) returns the next request.
MReadCmd(w) ==
    /\ mt_term = "running"
    /\ mt_pc[w] = "read"
    /\ mt_next <= MaxReq
    /\ mt_cmd' = [mt_cmd EXCEPT ![cmd_slot(w)] = mt_next]
    /\ mt_reader' = [mt_reader EXCEPT ![mt_next] = w]
    /\ mt_next' = mt_next + 1
    /\ mt_pc' = [mt_pc EXCEPT ![w] = do_work_after_read(mt_next)]
    /\ UNCHANGED <<mt_created, mt_proc, mt_by, mt_term>>
    /\ UNCHANGED <<sess, nonMtVars>>

\* cmd = __fuse_read_cmd(w->f) returns NULL: exit(1) ends the process.
MReadNull(w) ==
    /\ mt_term = "running"
    /\ mt_pc[w] = "read"
    /\ mt_term' = do_work_after_read(0)
    /\ UNCHANGED <<mt_created, mt_pc, mt_cmd, mt_next, mt_reader, mt_proc, mt_by>>
    /\ UNCHANGED <<sess, nonMtVars>>

\* w->proc(w->f, cmd, w->data) is called.
MProcCall(w) ==
    /\ mt_term = "running"
    /\ mt_pc[w] = "have"
    /\ LET r == mt_cmd[cmd_slot(w)] IN
          /\ mt_proc' = [mt_proc EXCEPT ![r] = @ + 1]
          /\ mt_by' = [mt_by EXCEPT ![r] = w]
    /\ mt_pc' = [mt_pc EXCEPT ![w] = "proc"]
    /\ UNCHANGED <<mt_created, mt_cmd, mt_next, mt_reader, mt_term>>
    /\ UNCHANGED <<sess, nonMtVars>>

\* w->proc returns; while(1) goes round.
MProcReturn(w) ==
    /\ mt_term = "running"
    /\ mt_pc[w] = "proc"
    /\ mt_pc' = [mt_pc EXCEPT ![w] = "read"]
    /\ UNCHANGED <<mt_created, mt_cmd, mt_next, mt_reader, mt_proc, mt_by, mt_term>>
    /\ UNCHANGED <<sess, nonMtVars>>

\* The session is told to exit.
MExit ==
    /\ mt_term = "running"
    /\ sess[TheSess].exited = 0
    /\ sess' = fuse_session_exit(World, TheSess, 0).sess
    /\ UNCHANGED mtVars
    /\ UNCHANGED nonMtVars

NextMt ==
    \/ MStartThread
    \/ MStartThreadFail
    \/ MMainDoWork
    \/ \E w \in Workers : MReadCmd(w)
    \/ \E w \in Workers : MReadNull(w)
    \/ \E w \in Workers : MProcCall(w)
    \/ \E w \in Workers : MProcReturn(w)
    \/ MExit

SpecMt == InitMt /\ [][NextMt]_vars

C4_NoReadAfterExit ==
    [][(fuse_session_exited(World, TheSess) # 0 /\ mt_term = "running") =>
          \A w \in Workers : ~(mt_pc[w] = "proc" /\ mt_pc'[w] = "read")]_vars


(***************************************************************************)
(* SpecMnt: one mount on the asynchronous-mount platform.  The main thread *)
(* runs fuse_setup_common (fuse_mount_common, fuse_new_common,             *)
(* fuse_daemonize, fuse_set_signal_handlers), the loop, and                *)
(* fuse_teardown_common; the mount callback runs on its own thread once    *)
(* fuse_kern_mount has returned a descriptor; exit_handler runs on the     *)
(* serial signal queue for every unmount signal delivered while the        *)
(* sources are registered.  A thread takes one step per access to shared   *)
(* memory.                                                                 *)
(***************************************************************************)
TheDisk == "ref_a"

Running == ~aborted /\ ~crashed /\ m_loop # "exit1"

Go(t, p) == pc' = [pc EXCEPT ![t] = p]

\* The thread reads or writes *ch.
Touch(t, c) == uaf' = IF chans[c].freed > 0 THEN uaf \cup {t} ELSE uaf

\* The thread reads or writes *se.
TouchSess(t, s) == uaf' = IF sess[s].freed THEN uaf \cup {t} ELSE uaf

mcVars == <<mc_state, mc_lock, mc_ch>>
sigVars == <<fuse_instance, sig_sources, nsig>>
apiCore == <<chans, sess, cf, aborted, fx, nret, nrel>>

InitMnt == ApiIdle /\ DispIdle /\ MtIdle /\ MntIdle /\ ExtIdle

\* fuse_mount_common: mc = fuse_mount_context_new(mountpoint)
MMountCtxNew ==
    /\ Running /\ pc["main"] = "start"
    /\ mc_state' = "live"
    /\ Go("main", "mc_lock")
    /\ UNCHANGED <<ret, t_ch, t_disk, m_fuse, mc_lock, mc_ch, cb_status, sigVars,
                   kunmounts, uaf, crashed, apiCore, nonMntVars>>

\* Mutant: the context lock excludes nobody.
M_mc_lock_ignored(lock) == TRUE

\* pthread_mutex_lock(&mc->lock) can go through
mc_lock_free(lock) == lock = NULL

\* pthread_mutex_lock(&mc->lock)
MMcLock ==
    /\ Running /\ pc["main"] = "mc_lock"
    /\ mc_lock_free(mc_lock)
    /\ mc_lock' = "main"
    /\ Go("main", "kern_mount")
    /\ UNCHANGED <<ret, t_ch, t_disk, m_fuse, mc_state, mc_ch, cb_status, sigVars,
                   kunmounts, uaf, crashed, apiCore, nonMntVars>>

\* fd = fuse_kern_mount(mountpoint, args, &fuse_mount_callback, mc) returns a
\* descriptor: the callback will be called.
MKernMountOk ==
    /\ Running /\ pc["main"] = "kern_mount"
    /\ pc' = [pc EXCEPT !["main"] = "chan_new", !["cb"] = "armed"]
    /\ UNCHANGED <<ret, t_ch, t_disk, m_fuse, mcVars, cb_status, sigVars,
                   kunmounts, uaf, crashed, apiCore, nonMntVars>>

\* fd == -1: unlock, fuse_mount_context_destroy(mc), return NULL.
MKernMountFail ==
    /\ Running /\ pc["main"] = "kern_mount"
    /\ mc_lock' = NULL
    /\ mc_state' = "freed"
    /\ Go("main", "setup_failed")
    /\ UNCHANGED <<ret, t_ch, t_disk, m_fuse, mc_ch, cb_status, sigVars,
                   kunmounts, uaf, crashed, apiCore, nonMntVars>>

\* ch = fuse_kern_chan_new(fd); fuse_chan_retain(ch); mc->ch = ch;
MChanNewOk ==
    /\ Running /\ pc["main"] = "chan_new"
    /\ Apply(fuse_chan_retain(World, TheChan))
    /\ t_ch' = [t_ch EXCEPT !["main"] = TheChan]
    /\ mc_ch' = TheChan
    /\ Go("main", "mc_unlock")
    /\ UNCHANGED <<ret, t_disk, m_fuse, mc_state, mc_lock, cb_status, sigVars,
                   kunmounts, uaf, crashed, nonMntVars>>

\* ch == NULL: fuse_kern_unmount(NULL, fd)
MChanNewFail ==
    /\ Running /\ pc["main"] = "chan_new"
    /\ kunmounts' = Append(kunmounts, <<"main", NULL>>)
    /\ Go("main", "mc_unlock")
    /\ UNCHANGED <<ret, t_ch, t_disk, m_fuse, mcVars, cb_status, sigVars,
                   uaf, crashed, apiCore, nonMntVars>>

\* pthread_mutex_unlock(&mc->lock); return ch;  then in fuse_setup_common:
\* if (!ch) goto err_free.
MMcUnlock ==
    /\ Running /\ pc["main"] = "mc_unlock"
    /\ mc_lock' = NULL
    /\ Go("main", IF t_ch["main"] = NULL THEN "setup_failed" ELSE "fuse_new")
    /\ UNCHANGED <<ret, t_ch, t_disk, m_fuse, mc_state, mc_ch, cb_status, sigVars,
                   kunmounts, uaf, crashed, apiCore, nonMntVars>>

\* fuse = fuse_new_common(ch, ...) makes the session and binds the channel.
MFuseNewOk ==
    /\ Running /\ pc["main"] = "fuse_new"
    /\ Apply(fuse_session_add_chan(World, TheSess, t_ch["main"]))
    /\ Touch("main", t_ch["main"])
    /\ m_fuse' = TRUE
    /\ Go("main", "daemonize")
    /\ UNCHANGED <<ret, t_ch, t_disk, mcVars, cb_status, sigVars,
                   kunmounts, crashed, nonMntVars>>

\* fuse == NULL: goto err_unmount.
MFuseNewFail ==
    /\ Running /\ pc["main"] = "fuse_new"
    /\ Go("main", "err_unmount")
    /\ UNCHANGED <<ret, t_ch, t_disk, m_fuse, mcVars, cb_status, sigVars,
                   kunmounts, uaf, crashed, apiCore, nonMntVars>>

\* res = fuse_daemonize(foreground); if (res == -1) goto err_unmount.
MDaemonize ==
    /\ Running /\ pc["main"] = "daemonize"
    /\ \/ Go("main", "set_sig")
       \/ Go("main", "err_unmount")
    /\ UNCHANGED <<ret, t_ch, t_disk, m_fuse, mcVars, cb_status, sigVars,
                   kunmounts, uaf, crashed, apiCore, nonMntVars>>

\* fuse_set_signal_handlers(se) registers the sources; fuse_instance = se.
MSetSigOk ==
    /\ Running /\ pc["main"] = "set_sig"
    /\ fuse_instance' = TheSess
    /\ sig_sources' = TRUE
    /\ Go("main", "loop")
    /\ UNCHANGED <<ret, t_ch, t_disk, m_fuse, mcVars, cb_status, nsig,
                   kunmounts, uaf, crashed, apiCore, nonMntVars>>

\* fuse_set_signal_handlers returns -1 (some sources may have been registered
\* by then; fuse_instance is not set): goto err_unmount.
MSetSigFail ==
    /\ Running /\ pc["main"] = "set_sig"
    /\ sig_sources' \in BOOLEAN
    /\ Go("main", "err_unmount")
    /\ UNCHANGED <<ret, t_ch, t_disk, m_fuse, mcVars, cb_status, fuse_instance, nsig,
                   kunmounts, uaf, crashed, apiCore, nonMntVars>>

\* err_unmount: fuse_unmount_common(*mountpoint, ch)
MErrUnmount ==
    /\ Running /\ pc["main"] = "err_unmount"
    /\ ret' = [ret EXCEPT !["main"] = "err_destroy"]
    /\ Go("main", "u_enter")
    /\ UNCHANGED <<t_ch, t_disk, m_fuse, mcVars, cb_status, sigVars,
                   kunmounts, uaf, crashed, apiCore, nonMntVars>>

\* if (fuse) fuse_destroy(fuse); err_free: ...; return NULL.
MErrDestroy ==
    /\ Running /\ pc["main"] = "err_destroy"
    /\ IF m_fuse
       THEN Apply(fuse_session_destroy(World, TheSess)) /\ TouchSess("main", TheSess)
       ELSE UNCHANGED <<apiCore, uaf>>
    /\ Go("main", "setup_failed")
    /\ UNCHANGED <<ret, t_ch, t_disk, m_fuse, mcVars, cb_status, sigVars,
                   kunmounts, crashed, nonMntVars>>

\* The results a loop hands back: clean exit, or failure.
LoopResults == {0, 0 - 1}

\* Mutant: the entry returns 0 whatever the loop reported.
M_main_return_zero(res) == 0

\* fuse_main_common: if (res == -1) return 1; return 0;
main_return(res) == IF res = 0 - 1 THEN 1 ELSE 0

\* fuse_teardown_common, in the order of its calls.
TeardownOrder ==
    <<"fuse_remove_signal_handlers", "fuse_unmount_common", "fuse_destroy", "free">>

\* The loop is running: it, or one of the units it submitted, calls
\* fuse_session_receive_buf, fuse_session_process_buf or fuse_chan_send on the
\* channel it took from the session when it started.
MLoopUse ==
    /\ Running /\ pc["main"] = "loop"
    /\ Touch("main", t_ch["main"])
    /\ UNCHANGED <<pc, ret, t_ch, t_disk, m_fuse, mcVars, cb_status, sigVars,
                   kunmounts, crashed, apiCore, nonMntVars>>

\* res = fuse_loop(fuse) or res = fuse_loop_dispatch(fuse): the loop returns
\* (the session exited or a read ended it).
MLoopEnd ==
    /\ Running /\ pc["main"] = "loop"
    /\ \E res \in LoopResults : m_res' = res
    /\ m_loop' = "returned"
    /\ Go("main", "td_next_chan")
    /\ UNCHANGED <<ret, t_ch, t_disk, m_fuse, mcVars, cb_status, sigVars,
                   kunmounts, uaf, crashed, apiCore, nonMntMain, m_ret, td_trace>>

\* fuse_loop_mt(fuse): a worker's read returns NULL and do_work calls exit(1).
MLoopMtExit ==
    /\ Running /\ pc["main"] = "loop"
    /\ m_loop' = "exit1"
    /\ UNCHANGED <<pc, ret, t_ch, t_disk, m_fuse, mcVars, cb_status, sigVars,
                   kunmounts, uaf, crashed, apiCore, nonMntMain, m_res, m_ret, td_trace>>

\* fuse_main_common returns: 1 when fuse_setup_common returned NULL, else
\* after fuse_teardown_common by res.
MMainReturn ==
    /\ Running /\ pc["main"] \in {"done", "setup_failed"}
    /\ m_ret = <<>>
    /\ m_ret' = <<IF pc["main"] = "setup_failed" THEN 1 ELSE main_return(m_res)>>
    /\ UNCHANGED <<pc, ret, t_ch, t_disk, m_fuse, mcVars, cb_status, sigVars,
                   kunmounts, uaf, crashed, apiCore, nonMntMain, m_loop, m_res, td_trace>>

\* fuse_teardown_common: ch = fuse_session_next_chan(se, NULL)
MTdNextChan ==
    /\ Running /\ pc["main"] = "td_next_chan"
    /\ t_ch' = [t_ch EXCEPT !["main"] = fuse_session_next_chan(World, TheSess)]
    /\ Go("main", "td_remove_sig")
    /\ UNCHANGED <<ret, t_disk, m_fuse, mcVars, cb_status, sigVars,
                   kunmounts, uaf, crashed, apiCore, nonMntVars>>

\* fuse_remove_signal_handlers(se); then fuse_unmount_common(mountpoint, ch)
MTdRemoveSig ==
    /\ Running /\ pc["main"] = "td_remove_sig"
    /\ fuse_instance' = IF fuse_instance = TheSess THEN NULL ELSE fuse_instance
    /\ sig_sources' = FALSE
    /\ ret' = [ret EXCEPT !["main"] = "td_destroy"]
    /\ td_trace' = Append(td_trace, "fuse_remove_signal_handlers")
    /\ Go("main", "u_enter")
    /\ UNCHANGED <<t_ch, t_disk, m_fuse, mcVars, cb_status, nsig,
                   kunmounts, uaf, crashed, apiCore, nonMntMain, m_loop, m_res, m_ret>>

\* fuse_destroy(fuse) destroys the session; free(mountpoint).
MTdDestroy ==
    /\ Running /\ pc["main"] = "td_destroy"
    /\ Apply(fuse_session_destroy(World, TheSess))
    /\ TouchSess("main", TheSess)
    /\ td_trace' = td_trace \o <<"fuse_destroy", "free">>
    /\ Go("main", "done")
    /\ UNCHANGED <<ret, t_ch, t_disk, m_fuse, mcVars, cb_status, sigVars,
                   kunmounts, crashed, nonMntMain, m_loop, m_res, m_ret>>

\* fuse_unmount_common: if (ch) { ... }
UEnter(t) ==
    /\ Running /\ pc[t] = "u_enter"
    /\ Go(t, IF t_ch[t] = NULL THEN ret[t] ELSE "u_disk")
    /\ td_trace' = IF ret[t] = "td_destroy"
                   THEN Append(td_trace, "fuse_unmount_common")
                   ELSE td_trace
    /\ UNCHANGED <<ret, t_ch, t_disk, m_fuse, mcVars, cb_status, sigVars,
                   kunmounts, uaf, crashed, apiCore, nonMntMain, m_loop, m_res, m_ret>>

\* DADiskRef disk = fuse_chan_disk(ch)
UDisk(t) ==
    /\ Running /\ pc[t] = "u_disk"
    /\ LET r == fuse_chan_disk(World, t_ch[t]) IN
          /\ Apply(r.w)
          /\ t_disk' = [t_disk EXCEPT ![t] = r.ret]
    /\ Touch(t, t_ch[t])
    /\ Go(t, "u_kern")
    /\ UNCHANGED <<ret, t_ch, m_fuse, mcVars, cb_status, sigVars,
                   kunmounts, crashed, nonMntVars>>

\* fuse_kern_unmount(disk, fuse_chan_fd(ch))
UKern(t) ==
    /\ Running /\ pc[t] = "u_kern"
    /\ kunmounts' = Append(kunmounts, <<t, t_disk[t]>>)
    /\ Touch(t, t_ch[t])
    /\ Go(t, IF unmount_destroys(t_disk[t]) THEN "cd_remove" ELSE "u_cfrelease")
    /\ UNCHANGED <<ret, t_ch, t_disk, m_fuse, mcVars, cb_status, sigVars,
                   crashed, apiCore, nonMntVars>>

\* if (disk) CFRelease(disk)
UCFRelease(t) ==
    /\ Running /\ pc[t] = "u_cfrelease"
    /\ Apply(CFRelease(World, t_disk[t]))
    /\ Go(t, ret[t])
    /\ UNCHANGED <<ret, t_ch, t_disk, m_fuse, mcVars, cb_status, sigVars,
                   kunmounts, uaf, crashed, nonMntVars>>

\* else fuse_chan_destroy(ch): fuse_session_remove_chan(ch)
CdRemove(t) ==
    /\ Running /\ pc[t] = "cd_remove"
    /\ Apply(fuse_session_remove_chan(World, t_ch[t]))
    /\ uaf' = IF \/ chans[t_ch[t]].freed > 0
                 \/ (chans[t_ch[t]].se # NULL /\ sess[chans[t_ch[t]].se].freed)
              THEN uaf \cup {t} ELSE uaf
    /\ Go(t, "cd_opdestroy")
    /\ UNCHANGED <<ret, t_ch, t_disk, m_fuse, mcVars, cb_status, sigVars,
                   kunmounts, crashed, nonMntVars>>

\* if (ch->op.destroy) ch->op.destroy(ch)
CdOpDestroy(t) ==
    /\ Running /\ pc[t] = "cd_opdestroy"
    /\ Apply(chan_op_destroy(World, t_ch[t]))
    /\ Touch(t, t_ch[t])
    /\ Go(t, "cd_release")
    /\ UNCHANGED <<ret, t_ch, t_disk, m_fuse, mcVars, cb_status, sigVars,
                   kunmounts, crashed, nonMntVars>>

\* fuse_chan_release(ch)
CdRelease(t) ==
    /\ Running /\ pc[t] = "cd_release"
    /\ Apply(fuse_chan_release(World, t_ch[t]))
    /\ Touch(t, t_ch[t])
    /\ Go(t, ret[t])
    /\ UNCHANGED <<ret, t_ch, t_disk, m_fuse, mcVars, cb_status, sigVars,
                   kunmounts, crashed, nonMntVars>>

\* An unmount signal fires its dispatch source: exit_handler(sig) is queued.
SSignal ==
    /\ Running /\ pc["sig"] = "idle"
    /\ sig_sources
    /\ nsig < MaxSig
    /\ nsig' = nsig + 1
    /\ Go("sig", "h_instance")
    /\ UNCHANGED <<ret, t_ch, t_disk, m_fuse, mcVars, cb_status, fuse_instance,
                   sig_sources, kunmounts, uaf, crashed, apiCore, nonMntVars>>

\* exit_handler: if (fuse_instance)
SInstance ==
    /\ Running /\ pc["sig"] = "h_instance"
    /\ Go("sig", IF fuse_instance = NULL THEN "idle" ELSE "h_next_chan")
    /\ UNCHANGED <<ret, t_ch, t_disk, m_fuse, mcVars, cb_status, sigVars,
                   kunmounts, uaf, crashed, apiCore, nonMntVars>>

\* ch = fuse_session_next_chan(fuse_instance, NULL); if (ch) fuse_unmount(NULL, ch)
SNextChan ==
    /\ Running /\ pc["sig"] = "h_next_chan"
    /\ LET ch == fuse_session_next_chan(World, TheSess) IN
          /\ t_ch' = [t_ch EXCEPT !["sig"] = ch]
          /\ Go("sig", IF ch = NULL THEN "idle" ELSE "u_disk")
    /\ ret' = [ret EXCEPT !["sig"] = "idle"]
    /\ TouchSess("sig", TheSess)
    /\ UNCHANGED <<t_disk, m_fuse, mcVars, cb_status, sigVars,
                   kunmounts, crashed, apiCore, nonMntVars>>

\* Mutant: the callback attaches the disk whatever the status.
M_callback_ignores_status(status) == FALSE

\* if (status != 0) { ...; goto out; }
callback_goes_out(status) == status # 0

\* fuse_mount_callback(context, status): pthread_mutex_lock(&mc->lock)
CbLock ==
    /\ Running /\ pc["cb"] = "armed"
    /\ mc_lock_free(mc_lock)
    /\ mc_lock' = "cb"
    /\ \E st \in {0, 1} : cb_status' = st
    /\ Go("cb", "cb_locked")
    /\ UNCHANGED <<ret, t_ch, t_disk, m_fuse, mc_state, mc_ch, sigVars,
                   kunmounts, uaf, crashed, apiCore, nonMntVars>>

\* if (status != 0) goto out
CbFailed ==
    /\ Running /\ pc["cb"] = "cb_locked"
    /\ callback_goes_out(cb_status)
    /\ Go("cb", "cb_unlock")
    /\ UNCHANGED <<ret, t_ch, t_disk, m_fuse, mcVars, cb_status, sigVars,
                   kunmounts, uaf, crashed, apiCore, nonMntVars>>

\* disk = DADiskCreateFromVolumePath(...) returns NULL
CbNoDisk ==
    /\ Running /\ pc["cb"] = "cb_locked"
    /\ ~callback_goes_out(cb_status)
    /\ Go("cb", "cb_unlock")
    /\ UNCHANGED <<ret, t_ch, t_disk, m_fuse, mcVars, cb_status, sigVars,
                   kunmounts, uaf, crashed, apiCore, nonMntVars>>

\* if (disk) { fuse_chan_set_disk(mc->ch, disk); CFRelease(disk); }
\* With mc->ch NULL, fuse_chan_set_disk locks through a null pointer.
CbAttach ==
    /\ Running /\ pc["cb"] = "cb_locked"
    /\ ~callback_goes_out(cb_status)
    /\ IF mc_ch = NULL
       THEN /\ crashed' = TRUE
            /\ UNCHANGED <<apiCore, uaf>>
       ELSE /\ Apply(CFRelease(fuse_chan_set_disk(World, mc_ch, TheDisk), TheDisk))
            /\ Touch("cb", mc_ch)
            /\ UNCHANGED crashed
    /\ Go("cb", "cb_unlock")
    /\ UNCHANGED <<ret, t_ch, t_disk, m_fuse, mcVars, cb_status, sigVars,
                   kunmounts, nonMntVars>>

\* out: pthread_mutex_unlock(&mc->lock)
CbUnlock ==
    /\ Running /\ pc["cb"] = "cb_unlock"
    /\ mc_lock' = NULL
    /\ Go("cb", "cb_destroy")
    /\ UNCHANGED <<ret, t_ch, t_disk, m_fuse, mc_state, mc_ch, cb_status, sigVars,
                   kunmounts, uaf, crashed, apiCore, nonMntVars>>

\* Mutant: destroying the context never releases its channel.
M_context_never_releases(ch) == FALSE

\* fuse_mount_context_destroy: if (mc->ch)
context_holds_channel(ch) == ch # NULL

\* fuse_mount_context_destroy(mc): if (mc->ch) fuse_chan_release(mc->ch); free(mc)
CbDestroy ==
    /\ Running /\ pc["cb"] = "cb_destroy"
    /\ IF context_holds_channel(mc_ch)
       THEN Apply(fuse_chan_release(World, mc_ch)) /\ Touch("cb", mc_ch)
       ELSE UNCHANGED <<apiCore, uaf>>
    /\ mc_state' = "freed"
    /\ Go("cb", "done")
    /\ UNCHANGED <<ret, t_ch, t_disk, m_fuse, mc_lock, mc_ch, cb_status, sigVars,
                   kunmounts, crashed, nonMntVars>>

\* Touching freed memory may end the process.
Crash ==
    /\ Running
    /\ uaf # {}
    /\ crashed' = TRUE
    /\ UNCHANGED <<pc, ret, t_ch, t_disk, m_fuse, mcVars, cb_status, sigVars,
                   kunmounts, uaf, apiCore, nonMntVars>>

NextMnt ==
    \/ MMountCtxNew
    \/ MMcLock
    \/ MKernMountOk
    \/ MKernMountFail
    \/ MChanNewOk
    \/ MChanNewFail
    \/ MMcUnlock
    \/ MFuseNewOk
    \/ MFuseNewFail
    \/ MDaemonize
    \/ MSetSigOk
    \/ MSetSigFail
    \/ MErrUnmount
    \/ MErrDestroy
    \/ MLoopUse
    \/ MLoopEnd
    \/ MLoopMtExit
    \/ MMainReturn
    \/ MTdNextChan
    \/ MTdRemoveSig
    \/ MTdDestroy
    \/ \E t \in {"main", "sig"} : UEnter(t)
    \/ \E t \in {"main", "sig"} : UDisk(t)
    \/ \E t \in {"main", "sig"} : UKern(t)
    \/ \E t \in {"main", "sig"} : UCFRelease(t)
    \/ \E t \in {"main", "sig"} : CdRemove(t)
    \/ \E t \in {"main", "sig"} : CdOpDestroy(t)
    \/ \E t \in {"main", "sig"} : CdRelease(t)
    \/ SSignal
    \/ SInstance
    \/ SNextChan
    \/ CbLock
    \/ CbFailed
    \/ CbNoDisk
    \/ CbAttach
    \/ CbUnlock
    \/ CbDestroy
    \/ Crash

SpecMnt == InitMnt /\ [][NextMnt]_vars

\* The steps of fuse_mount_common from the lock to the unlock, and the steps
\* of fuse_mount_callback from the lock to the unlock.
MountSection == MMcLock \/ MKernMountOk \/ MKernMountFail \/ MChanNewOk \/ MChanNewFail \/ MMcUnlock
CallbackSection == CbLock \/ CbFailed \/ CbNoDisk \/ CbAttach \/ CbUnlock

\* Neither thread sleeps inside its section: none of their steps waits for
\* anything but the lock, and a thread that can run is scheduled.
SpecMntFair == SpecMnt /\ WF_vars(MountSection) /\ WF_vars(CallbackSection)

\* fuse_mount has returned the channel and the mount callback has not finished.
CallbackPending == mc_ch = TheChan /\ pc["main"] # "mc_unlock" /\ pc["cb"] # "done"

\* C5 as claimed: from the return of fuse_mount until the mount callback has
\* finished the channel is not freed, whatever the signal handler and the
\* teardown do meanwhile, and the callback never touches a freed channel.
C5_ChannelOutlivesCallback ==
    /\ CallbackPending => Live(TheChan)
    /\ "cb" \notin uaf

\* Every thread of the mount has come to rest.
Quiet ==
    /\ pc["main"] \in {"done", "setup_failed"}
    /\ pc["sig"] = "idle"
    /\ pc["cb"] = "done"

\* C11: when the mount callback has fired with a non-zero status, the channel
\* holds no disk reference and has lost only the mount context's reference,
\* so it can still be destroyed: with one unmount (by the teardown, by the
\* failing setup or by the signal handler) the channel is freed exactly when
\* its second reference is released, is freed once, and is freed by the time
\* every thread has come to rest (no leak).
C11_FailedMountChannelDestroyable ==
    (mc_ch = TheChan /\ pc["cb"] = "done" /\ cb_status # 0 /\ Len(kunmounts) <= 1) =>
        /\ chans[TheChan].disk = NULL
        /\ nrel[TheChan] \in {1, 2}
        /\ chans[TheChan].retain_count = 2 - nrel[TheChan]
        /\ chans[TheChan].freed = (IF nrel[TheChan] = 2 THEN 1 ELSE 0)
        /\ (nrel[TheChan] = 1 /\ Len(kunmounts) = 0) => "cb" \notin uaf
        /\ Quiet => chans[TheChan].freed = 1

C11_Witness ==
    /\ Quiet
    /\ pc["main"] = "done"
    /\ cb_status # 0
    /\ nsig = 0
    /\ Len(kunmounts) = 1
    /\ chans[TheChan].freed = 1
    /\ chans[TheChan].retain_count = 0

\* C14 as claimed: once fuse_setup_common has failed and every thread has come
\* to rest, everything allocated is freed: the mount context is gone; if the
\* mount had succeeded and produced a channel, fuse_kern_unmount has been
\* called for it and the channel is freed, its count at zero; a constructed
\* session is destroyed.
C14_FailedSetupFreesEverything ==
    (Quiet /\ pc["main"] = "setup_failed") =>
        /\ mc_state = "freed"
        /\ mc_ch = TheChan =>
              /\ Len(kunmounts) >= 1
              /\ chans[TheChan].freed = 1
              /\ chans[TheChan].retain_count = 0
        /\ m_fuse => sess[TheSess].freed

IsPrefix(p, q) == Len(p) <= Len(q) /\ \A i \in 1..Len(p) : p[i] = q[i]

SigWorld == [disp |-> sg_disp, src |-> sg_src, inst |-> fuse_instance,
             err |-> {}, ret |-> 0]

\* Mutant: with remove set, the disposition is left as it is.
M_remove_leaves_disposition(G, sig, handler, remove, fails) ==
    IF fails
    THEN [G EXCEPT !.err = @ \cup {"perror sigaction"}, !.ret = 0 - 1]
    ELSE IF ~remove /\ G.disp[sig] = "SIG_DFL"
         THEN [G EXCEPT !.disp[sig] = handler, !.ret = 0]
         ELSE [G EXCEPT !.ret = 0]

\* set_one_signal_handler(sig, handler, remove); fails: a sigaction call
\* returns -1.
set_one_signal_handler(G, sig, handler, remove, fails) ==
    IF fails
    THEN [G EXCEPT !.err = @ \cup {"perror sigaction"}, !.ret = 0 - 1]
    ELSE IF G.disp[sig] = (IF remove THEN handler ELSE "SIG_DFL")
         THEN [G EXCEPT !.disp[sig] = (IF remove THEN "SIG_DFL" ELSE handler),
                        !.ret = 0]
         ELSE [G EXCEPT !.ret = 0]

\* fuse_unmount_sources[i] = register_signal_source(signal); fails:
\* dispatch_source_create returns NULL.
register_signal_source(G, i, fails) ==
    IF fails
    THEN [G EXCEPT !.src[i] = FALSE, !.err = @ \cup {"failed to create source"}]
    ELSE [G EXCEPT !.src[i] = TRUE]

\* The for loop of fuse_set_signal_handlers, from index i on.
RECURSIVE set_unmount_sources(_, _, _, _)
set_unmount_sources(G, i, sigfail, srcfail) ==
    IF i > Len(UnmountSignals)
    THEN [G EXCEPT !.ret = 0]
    ELSE LET G1 == set_one_signal_handler(G, UnmountSignals[i], "SIG_IGN", FALSE,
                                          sigfail = UnmountSignals[i])
         IN  IF G1.ret # 0
             THEN G1
             ELSE IF G1.src[i]
                  THEN [G1 EXCEPT !.err = @ \cup {"cannot register signal source"},
                                  !.ret = 0 - 1]
                  ELSE set_unmount_sources(register_signal_source(G1, i, i \in srcfail),
                                           i + 1, sigfail, srcfail)

\* Mutant: the session is registered without looking at the sources.
M_set_handlers_unguarded(G, se, sigfail, srcfail) ==
    [G EXCEPT !.inst = se, !.ret = 0]

fuse_set_signal_handlers(G, se, sigfail, srcfail) ==
    LET G1 == set_unmount_sources(G, 1, sigfail, srcfail) IN
    IF G1.ret # 0
    THEN G1
    ELSE LET G2 == set_one_signal_handler(G1, "SIGPIPE", "SIG_IGN", FALSE,
                                          sigfail = "SIGPIPE")
         IN  IF G2.ret # 0 THEN G2 ELSE [G2 EXCEPT !.inst = se, !.ret = 0]

\* The for loop of fuse_remove_signal_handlers, from index i on; the result
\* of set_one_signal_handler is not looked at.
RECURSIVE remove_unmount_sources(_, _, _)
remove_unmount_sources(G, i, sigfail) ==
    IF i > Len(UnmountSignals)
    THEN G
    ELSE LET G1 == set_one_signal_handler(G, UnmountSignals[i], "SIG_IGN", TRUE,
                                          sigfail = UnmountSignals[i])
         IN  remove_unmount_sources([G1 EXCEPT !.src[i] = FALSE], i + 1, sigfail)

\* Mutant: the registration is cleared whoever asks.
M_remove_clears_always(G, se, sigfail) ==
    [remove_unmount_sources(G, 1, sigfail) EXCEPT !.inst = NULL, !.ret = 0]

fuse_remove_signal_handlers(G, se, sigfail) ==
    LET G0 == IF G.inst # se
              THEN [G EXCEPT !.err = @ \cup {"unknown session"}]
              ELSE [G EXCEPT !.inst = NULL]
        G1 == remove_unmount_sources(G0, 1, sigfail)
        G2 == set_one_signal_handler(G1, "SIGPIPE", "SIG_IGN", TRUE,
                                     sigfail = "SIGPIPE")
    IN  [G2 EXCEPT !.ret = 0]

ApplySig(G, op, se) ==
    /\ sg_disp' = G.disp
    /\ sg_src' = G.src
    /\ fuse_instance' = G.inst
    /\ sg_last' = [op |-> op, se |-> se, ret |-> G.ret, err |-> G.err,
                   pre |-> [disp |-> sg_disp, src |-> sg_src, inst |-> fuse_instance]]
    /\ sg_app' = sg_app

\* The application's own dispositions at the time the library is first used.
InitSig ==
    /\ ApiIdle /\ DispIdle /\ MtIdle /\ MntIdle /\ MnIdle /\ DzIdle /\ DxIdle /\ DkIdle /\ GuIdle
    /\ sg_disp \in [Signals -> Dispositions]
    /\ sg_src = [i \in DOMAIN UnmountSignals |-> FALSE]
    /\ sg_last = NoSigCall
    /\ sg_app = <<>>

SetSignalHandlers(se) ==
    \E sigfail \in Signals \cup {NULL}, srcfail \in SUBSET DOMAIN UnmountSignals :
        /\ ApplySig(fuse_set_signal_handlers(SigWorld, se, sigfail, srcfail), "set", se)
        /\ UNCHANGED nonSgVars

RemoveSignalHandlers(se) ==
    \E sigfail \in Signals \cup {NULL} :
        /\ ApplySig(fuse_remove_signal_handlers(SigWorld, se, sigfail), "remove", se)
        /\ UNCHANGED nonSgVars

NextSig ==
    \/ \E se \in Sessions : SetSignalHandlers(se)
    \/ \E se \in Sessions : RemoveSignalHandlers(se)

SpecSig == InitSig /\ [][NextSig]_vars

\* C12 as claimed: a call of fuse_set_signal_handlers for a session while
\* another session is the registered one returns -1 with an error message and
\* leaves the registered session in place.
C12_SecondRegistrationRefused ==
    (sg_last.op = "set" /\ sg_last.pre.inst # NULL /\ sg_last.pre.inst # sg_last.se) =>
        /\ sg_last.ret # 0
        /\ sg_last.err # {}
        /\ fuse_instance = sg_last.pre.inst

\* C13: fuse_remove_signal_handlers(se) for a session that is not the
\* registered one prints the mismatch and leaves fuse_instance as it was (the
\* registered session, or NULL); fuse_instance is cleared, silently, exactly
\* when it equals se.
C13_RemoveClearsOnlyOwnRegistration ==
    sg_last.op = "remove" =>
        IF sg_last.pre.inst # sg_last.se
        THEN /\ fuse_instance = sg_last.pre.inst
             /\ "unknown session" \in sg_last.err
        ELSE /\ fuse_instance = NULL
             /\ "unknown session" \notin sg_last.err

C13_Witness ==
    /\ sg_last.op = "remove"
    /\ sg_last.pre.inst # NULL
    /\ sg_last.pre.inst # sg_last.se
    /\ fuse_instance = sg_last.pre.inst
    /\ "unknown session" \in sg_last.err

\* A process that has left every disposition at its default before the
\* library is first used.
InitSigDfl ==
    /\ ApiIdle /\ DispIdle /\ MtIdle /\ MntIdle /\ MnIdle /\ DzIdle /\ DxIdle /\ DkIdle /\ GuIdle
    /\ sg_disp = [sig \in Signals |-> "SIG_DFL"]
    /\ sg_src = [i \in DOMAIN UnmountSignals |-> FALSE]
    /\ sg_last = NoSigCall
    /\ sg_app = <<>>

SpecSigDfl == InitSigDfl /\ [][NextSig]_vars

\* The last call was fuse_remove_signal_handlers(se) for the session that a
\* fuse_set_signal_handlers(se) had registered, and no sigaction call failed.
RemovedAfterSet ==
    /\ sg_last.op = "remove"
    /\ sg_last.pre.inst = sg_last.se
    /\ "perror sigaction" \notin sg_last.err

InitSigApp ==
    /\ ApiIdle /\ DispIdle /\ MtIdle /\ MntIdle /\ MnIdle /\ DzIdle /\ DxIdle /\ DkIdle /\ GuIdle
    /\ sg_disp \in [Signals -> Dispositions]
    /\ sg_disp["SIGINT"] = "SIG_DFL" /\ sg_disp["SIGTERM"] = "SIG_DFL"
    /\ sg_src = [i \in DOMAIN UnmountSignals |-> FALSE]
    /\ sg_last = NoSigCall
    /\ sg_app = sg_disp

SpecSigApp == InitSigApp /\ [][NextSig]_vars

\* C28 as claimed: over every sequence of fuse_set_signal_handlers and
\* fuse_remove_signal_handlers, a disposition that the application had set
\* (one that was not the default when the library came to it) is neither
\* replaced by the installation nor reset by the removal.
C28_AppDispositionsUntouched ==
    \A sig \in Signals : sg_app[sig] # "SIG_DFL" => sg_disp[sig] = sg_app[sig]

\* The part of C28 that is about handler functions.
C28_AppHandlersUntouched ==
    \A sig \in Signals : sg_app[sig] = "app_handler" => sg_disp[sig] = "app_handler"

(***************************************************************************)
(* SpecDaemon: fuse_daemonize(foreground).  The calling process makes the  *)
(* pipe and forks; the parent blocks in read(waiter[0]) and then calls     *)
(* _exit(0); the child goes through setsid, chdir, the redirection of      *)
(* descriptors 0-2 and the write of the completion byte.  pipe, fork,      *)
(* setsid and open may fail; the parent's read may be interrupted by a     *)
(* signal the application handles.                                         *)
(***************************************************************************)
\* The child's steps between fork and the completion byte, in order.
ChildSteps == <<"setsid", "chdir", "open", "dup2_0", "dup2_1", "dup2_2", "close_nullfd">>

InitSteps == {ChildSteps[i] : i \in DOMAIN ChildSteps}

\* Mutant: the parent does not wait for the byte.
M_read_returns_at_once(pipe, interrupted) == TRUE

\* read(waiter[0], &completed, 1) comes back: a byte is there, or a handled
\* signal interrupted the call (-1, EINTR).  The parent holds waiter[1] open
\* itself, so the read never sees end-of-file.
read_returns(pipe, interrupted) == pipe > 0 \/ interrupted

\* The step after s in the child; the dup2/close steps are skipped when
\* open("/dev/null") failed.
next_child_step(s, nullfd) ==
    CASE s = "setsid" -> "chdir"
      [] s = "chdir" -> "open"
      [] s = "open" -> IF nullfd THEN "dup2_0" ELSE "write"
      [] s = "dup2_0" -> "dup2_1"
      [] s = "dup2_1" -> "dup2_2"
      [] s = "dup2_2" -> "close_nullfd"
      [] s = "close_nullfd" -> "write"
      [] OTHER -> "write"

InitDaemon ==
    /\ ApiIdle /\ DispIdle /\ MtIdle /\ MntIdle /\ SgIdle /\ MnIdle /\ DxIdle /\ DkIdle /\ GuIdle
    /\ dz_fg \in BOOLEAN
    /\ dz_app \in BOOLEAN
    /\ dz_pc = [p \in Procs |-> IF p = "parent" THEN "start" ELSE "unborn"]
    /\ dz_pipe = 0
    /\ dz_init = {}
    /\ dz_nullfd = FALSE
    /\ dz_ret = [p \in Procs |-> <<>>]

DzFrame == UNCHANGED <<dz_fg, dz_app, nonDzVars>>

\* if (!foreground) ... else return 0
DzForeground ==
    /\ dz_pc["parent"] = "start" /\ dz_fg
    /\ dz_pc' = [dz_pc EXCEPT !["parent"] = "returned"]
    /\ dz_ret' = [dz_ret EXCEPT !["parent"] = <<0, "">>]
    /\ UNCHANGED <<dz_pipe, dz_init, dz_nullfd>> /\ DzFrame

\* pipe(waiter) succeeds
DzPipe ==
    /\ dz_pc["parent"] = "start" /\ ~dz_fg
    /\ dz_pc' = [dz_pc EXCEPT !["parent"] = "fork"]
    /\ UNCHANGED <<dz_pipe, dz_init, dz_nullfd, dz_ret>> /\ DzFrame

\* pipe(waiter) fails: return -1
DzPipeFail ==
    /\ dz_pc["parent"] = "start" /\ ~dz_fg
    /\ dz_pc' = [dz_pc EXCEPT !["parent"] = "returned"]
    /\ dz_ret' = [dz_ret EXCEPT !["parent"] = <<0 - 1, "fuse_daemonize: pipe">>]
    /\ UNCHANGED <<dz_pipe, dz_init, dz_nullfd>> /\ DzFrame

\* fork(): the parent goes to the read, the child to setsid
DzFork ==
    /\ dz_pc["parent"] = "fork"
    /\ dz_pc' = [dz_pc EXCEPT !["parent"] = "read", !["child"] = "setsid"]
    /\ UNCHANGED <<dz_pipe, dz_init, dz_nullfd, dz_ret>> /\ DzFrame

\* fork() == -1: return -1
DzForkFail ==
    /\ dz_pc["parent"] = "fork"
    /\ dz_pc' = [dz_pc EXCEPT !["parent"] = "returned"]
    /\ dz_ret' = [dz_ret EXCEPT !["parent"] = <<0 - 1, "fuse_daemonize: fork">>]
    /\ UNCHANGED <<dz_pipe, dz_init, dz_nullfd>> /\ DzFrame

\* default: read(waiter[0], &completed, sizeof(completed)); _exit(0);
DzParentRead ==
    /\ dz_pc["parent"] = "read"
    /\ \E interrupted \in {FALSE, dz_app} :
          /\ read_returns(dz_pipe, interrupted)
          /\ dz_pipe' = IF interrupted THEN dz_pipe ELSE dz_pipe - 1
    /\ dz_pc' = [dz_pc EXCEPT !["parent"] = "exited_0"]
    /\ UNCHANGED <<dz_init, dz_nullfd, dz_ret>> /\ DzFrame

\* setsid() == -1: return -1 in the child
DzSetsidFail ==
    /\ dz_pc["child"] = "setsid"
    /\ dz_pc' = [dz_pc EXCEPT !["child"] = "returned"]
    /\ dz_ret' = [dz_ret EXCEPT !["child"] = <<0 - 1, "fuse_daemonize: setsid">>]
    /\ dz_init' = dz_init \cup {<<"setsid", FALSE>>}
    /\ UNCHANGED <<dz_pipe, dz_nullfd>> /\ DzFrame

\* setsid succeeds; (void) chdir("/"); open("/dev/null"); (void) dup2 x 3;
\* close(nullfd): apart from setsid, a failure is not looked at.
DzChildStep ==
    /\ dz_pc["child"] \in InitSteps
    /\ \E ok \in BOOLEAN :
          LET nullfd == IF dz_pc["child"] = "open" THEN ok ELSE dz_nullfd IN
          /\ dz_pc["child"] = "setsid" => ok
          /\ dz_nullfd' = nullfd
          /\ dz_pc' = [dz_pc EXCEPT !["child"] = next_child_step(dz_pc["child"], nullfd)]
          /\ dz_init' = dz_init \cup {<<dz_pc["child"], ok>>}
    /\ UNCHANGED <<dz_pipe, dz_ret>> /\ DzFrame

\* completed = 1; write(waiter[1], &completed, sizeof(completed));
DzChildWrite ==
    /\ dz_pc["child"] = "write"
    /\ dz_pipe' = dz_pipe + 1
    /\ dz_init' = dz_init \cup {<<"write", TRUE>>}
    /\ dz_pc' = [dz_pc EXCEPT !["child"] = "close"]
    /\ UNCHANGED <<dz_nullfd, dz_ret>> /\ DzFrame

\* close(waiter[0]); close(waiter[1]); return 0;
DzChildReturn ==
    /\ dz_pc["child"] = "close"
    /\ dz_pc' = [dz_pc EXCEPT !["child"] = "returned"]
    /\ dz_ret' = [dz_ret EXCEPT !["child"] = <<0, "">>]
    /\ UNCHANGED <<dz_pipe, dz_init, dz_nullfd>> /\ DzFrame

NextDaemon ==
    \/ DzForeground
    \/ DzPipe
    \/ DzPipeFail
    \/ DzFork
    \/ DzForkFail
    \/ DzParentRead
    \/ DzSetsidFail
    \/ DzChildStep
    \/ DzChildWrite
    \/ DzChildReturn

SpecDaemon == InitDaemon /\ [][NextDaemon]_vars

\* C16 as claimed: the parent has exited with status 0 only when the child
\* has completed its initialization steps and written the completion byte;
\* in particular not when the child failed before the handshake.
C16_ParentExitsAfterHandshake ==
    dz_pc["parent"] = "exited_0" =>
        /\ <<"write", TRUE>> \in dz_init
        /\ <<"setsid", TRUE>> \in dz_init
        /\ dz_ret["child"] = <<>> \/ dz_ret["child"][1] = 0

\* The main thread is between the return of pthread_mutex_lock and the
\* unlock in fuse_mount_common.
MainWiring == pc["main"] \in {"kern_mount", "chan_new", "mc_unlock"}

\* The callback is between its lock and its unlock.
CallbackReading == pc["cb"] \in {"cb_locked", "cb_unlock"}

C20_Exclusion ==
    /\ MainWiring => mc_lock = "main"
    /\ CallbackReading =>
          /\ mc_lock = "cb"
          /\ mc_state = "live"
          /\ pc["main"] \notin {"start", "mc_lock", "kern_mount", "chan_new", "mc_unlock"}
          /\ pc["main"] = "fuse_new" => mc_ch = t_ch["main"]

\* C20: the mount callback is inside its locked section only when the main
\* thread has left the section that runs from its lock through fuse_kern_mount
\* and the storing of mc->ch to its unlock, so it reads the context only
\* after the wiring is finished; and neither waits for the lock forever: a
\* callback that is due takes the lock, and whoever holds the lock gives it
\* up (or the process has ended).
C20_CallbackSeesWiredContext ==
    /\ []C20_Exclusion
    /\ (pc["cb"] = "armed") ~> (pc["cb"] # "armed" \/ ~Running)
    /\ (mc_lock # NULL) ~> (mc_lock = NULL \/ ~Running)

C20_Witness ==
    /\ pc["cb"] = "cb_locked"
    /\ mc_lock = "cb"
    /\ mc_ch = TheChan
    /\ pc["main"] = "fuse_new"
    /\ Running

\* The mount context through its life: allocated once, freed once, nobody
\* about to touch it once it is freed, and freed when its last user is done.
C21_ContextLife ==
    /\ mc_state = "none" => pc["main"] = "start"
    /\ mc_state = "freed" =>
          /\ pc["main"] \notin {"start", "mc_lock", "kern_mount", "chan_new", "mc_unlock"}
          /\ pc["cb"] \notin {"armed", "cb_locked", "cb_unlock", "cb_destroy"}
    /\ pc["cb"] = "done" => mc_state = "freed"
    /\ (pc["main"] = "setup_failed" /\ pc["cb"] = "idle") => mc_state = "freed"

\* C21: the mount context is destroyed exactly once and no thread touches it
\* afterwards: by the main thread when fuse_kern_mount fails (the callback is
\* then never due), otherwise by the callback as its last step, whatever the
\* status; the destruction releases the context's channel reference, if it
\* holds one, exactly once, and no other step of the callback releases it.
C21_ContextDestroyedOnce ==
    /\ []C21_ContextLife
    /\ [][mc_state' # mc_state =>
            \/ mc_state = "none" /\ mc_state' = "live"
            \/ /\ mc_state = "live" /\ mc_state' = "freed"
               /\ \/ pc["main"] = "kern_mount" /\ pc["cb"] = "idle" /\ mc_ch = NULL
                  \/ pc["cb"] = "cb_destroy" /\ pc'["cb"] = "done"
               /\ nrel' = IF mc_ch # NULL THEN [nrel EXCEPT ![mc_ch] = @ + 1] ELSE nrel]_vars
    /\ [][(pc'["cb"] # pc["cb"] /\ pc["cb"] # "cb_destroy") => nrel' = nrel]_vars

C21_Witness ==
    /\ pc["cb"] = "done"
    /\ mc_state = "freed"
    /\ mc_ch = TheChan
    /\ cb_status = 0
    /\ chans[TheChan].disk = TheDisk
    /\ nrel[TheChan] = 1
    /\ Running

\* C25 as claimed: while the dispatch loop is running on its channel, an
\* unmount driven by a signal does not free the channel, with or without a
\* disk attached, and neither the loop nor its units call receive, process
\* or send on a freed channel.
C25_LoopChannelNotFreedBySignal ==
    pc["main"] = "loop" =>
        /\ Live(t_ch["main"])
        /\ "main" \notin uaf

\* The calls of fuse_chan_destroy on c so far that got past
\* fuse_session_remove_chan: each runs op.destroy.
ChanDestroys(c) == chans[c].destroyed

\* C26 as claimed: for one mounted channel, over every interleaving of
\* unmount signals and the teardown, fuse_kern_unmount is called at most once
\* and the channel is destroyed at most once.
C26_UnmountAndDestroyAtMostOnce ==
    /\ Len(kunmounts) <= 1
    /\ ChanDestroys(TheChan) <= 1

\* The destroy half of C26 alone.
C26_DestroyAtMostOnce == ChanDestroys(TheChan) <= 1

\* C27 as claimed: when fuse_kern_chan_new failed after fuse_kern_mount
\* returned a descriptor, so that mc->ch is NULL, a mount callback called with
\* status 0 goes from its lock to its unlock without calling
\* fuse_chan_set_disk on the absent channel (which would end the process in
\* pthread_mutex_lock(&ch->lock)).
C27_CallbackAttachesOnlyToChannel ==
    [][(pc["cb"] = "cb_locked" /\ pc'["cb"] = "cb_unlock"
          /\ cb_status = 0 /\ mc_ch = NULL) => ~crashed']_vars

(***************************************************************************)
(* SpecDisk: fuse_chan_disk and fuse_chan_set_disk (fuse_chan_cleardisk is *)
(* set_disk with NULL) called on one channel from several threads, one     *)
(* statement at a time.  A caller passes only a disk it owns a reference   *)
(* to, and may release a reference it owns when it is outside the calls.   *)
(* An object whose count has reached zero is deallocated.                  *)
(***************************************************************************)
\* Mutant: the lock is not taken.
M_lock_always_free(lock) == TRUE

\* pthread_mutex_lock(&ch->lock) can go through
lock_free(lock) == lock = NULL

\* CFRetain / CFRelease on the object d; touching a deallocated object is an
\* error that is recorded.
DkCF(d, delta) ==
    /\ cf' = [cf EXCEPT ![d] = IF @ = 0 THEN 0 ELSE @ + delta]
    /\ dk_bad' = (dk_bad \/ cf[d] = 0)

DkGo(t, p) == dk_pc' = [dk_pc EXCEPT ![t] = p]

\* The calling code starts with one reference to each disk it created.
InitDisk ==
    /\ ApiIdle /\ DispIdle /\ MtIdle /\ MntIdle /\ SgIdle /\ MnIdle /\ DzIdle /\ DxIdle
    /\ GuIdle
    /\ dk_lock = NULL
    /\ dk_pc = [t \in DkThreads |-> "idle"]
    /\ dk_arg = [t \in DkThreads |-> NULL]
    /\ dk_loc = [t \in DkThreads |-> NULL]
    /\ dk_own = [t \in DkThreads |->
                   [d \in DkDisks |-> IF (t = "t1" /\ d = "ref_a") \/ (t = "t2" /\ d = "ref_b")
                                      THEN 1 ELSE 0]]
    /\ dk_n = 0
    /\ dk_bad = FALSE

\* fuse_chan_set_disk(ch, disk) is called: if (disk) CFRetain(disk);
DkSetCall(t) ==
    /\ dk_pc[t] = "idle" /\ dk_n < MaxOps
    /\ \E d \in DkDisks \cup {NULL} :
          /\ d # NULL => (dk_own[t][d] >= 1 /\ cf[d] < MaxCF)
          /\ dk_arg' = [dk_arg EXCEPT ![t] = d]
          /\ IF d # NULL THEN DkCF(d, 1) ELSE UNCHANGED <<cf, dk_bad>>
    /\ dk_n' = dk_n + 1
    /\ DkGo(t, "s_lock")
    /\ UNCHANGED <<chans, dk_lock, dk_loc, dk_own, nonDkVars>>

\* pthread_mutex_lock(&ch->lock) in either function
DkLock(t) ==
    /\ dk_pc[t] \in {"s_lock", "g_lock"}
    /\ lock_free(dk_lock)
    /\ dk_lock' = t
    /\ DkGo(t, IF dk_pc[t] = "s_lock" THEN "s_old" ELSE "g_read")
    /\ UNCHANGED <<chans, cf, dk_arg, dk_loc, dk_own, dk_n, dk_bad, nonDkVars>>

\* old = ch->disk;
DkSetOld(t) ==
    /\ dk_pc[t] = "s_old"
    /\ dk_loc' = [dk_loc EXCEPT ![t] = chans[TheChan].disk]
    /\ DkGo(t, "s_store")
    /\ UNCHANGED <<chans, cf, dk_lock, dk_arg, dk_own, dk_n, dk_bad, nonDkVars>>

\* ch->disk = disk;
DkSetStore(t) ==
    /\ dk_pc[t] = "s_store"
    /\ chans' = [chans EXCEPT ![TheChan].disk = dk_arg[t]]
    /\ DkGo(t, "s_unlock")
    /\ UNCHANGED <<cf, dk_lock, dk_arg, dk_loc, dk_own, dk_n, dk_bad, nonDkVars>>

\* pthread_mutex_unlock(&ch->lock) in either function
DkUnlock(t) ==
    /\ dk_pc[t] \in {"s_unlock", "g_unlock"}
    /\ dk_lock' = IF dk_lock = t THEN NULL ELSE dk_lock
    /\ DkGo(t, IF dk_pc[t] = "s_unlock" THEN "s_release" ELSE "g_return")
    /\ UNCHANGED <<chans, cf, dk_arg, dk_loc, dk_own, dk_n, dk_bad, nonDkVars>>

\* if (old) CFRelease(old); and fuse_chan_set_disk returns
DkSetRelease(t) ==
    /\ dk_pc[t] = "s_release"
    /\ IF dk_loc[t] # NULL THEN DkCF(dk_loc[t], 0 - 1) ELSE UNCHANGED <<cf, dk_bad>>
    /\ dk_arg' = [dk_arg EXCEPT ![t] = NULL]
    /\ dk_loc' = [dk_loc EXCEPT ![t] = NULL]
    /\ DkGo(t, "idle")
    /\ UNCHANGED <<chans, dk_lock, dk_own, dk_n, nonDkVars>>

\* fuse_chan_disk(ch) is called
DkGetCall(t) ==
    /\ dk_pc[t] = "idle" /\ dk_n < MaxOps
    /\ dk_n' = dk_n + 1
    /\ DkGo(t, "g_lock")
    /\ UNCHANGED <<chans, cf, dk_lock, dk_arg, dk_loc, dk_own, dk_bad, nonDkVars>>

\* disk = ch->disk;
DkGetRead(t) ==
    /\ dk_pc[t] = "g_read"
    /\ dk_loc' = [dk_loc EXCEPT ![t] = chans[TheChan].disk]
    /\ DkGo(t, "g_retain")
    /\ UNCHANGED <<chans, cf, dk_lock, dk_arg, dk_own, dk_n, dk_bad, nonDkVars>>

\* if (disk) CFRetain(disk);
DkGetRetain(t) ==
    /\ dk_pc[t] = "g_retain"
    /\ dk_loc[t] # NULL => cf[dk_loc[t]] < MaxCF
    /\ IF dk_loc[t] # NULL THEN DkCF(dk_loc[t], 1) ELSE UNCHANGED <<cf, dk_bad>>
    /\ DkGo(t, "g_unlock")
    /\ UNCHANGED <<chans, dk_lock, dk_arg, dk_loc, dk_own, dk_n, nonDkVars>>

\* return disk; the caller now owns what it was given
DkGetReturn(t) ==
    /\ dk_pc[t] = "g_return"
    /\ dk_own' = IF dk_loc[t] # NULL
                 THEN [dk_own EXCEPT ![t][dk_loc[t]] = @ + 1]
                 ELSE dk_own
    /\ dk_loc' = [dk_loc EXCEPT ![t] = NULL]
    /\ DkGo(t, "idle")
    /\ UNCHANGED <<chans, cf, dk_lock, dk_arg, dk_n, dk_bad, nonDkVars>>

\* The calling code releases a reference it owns.
DkCallerRelease(t) ==
    /\ dk_pc[t] = "idle"
    /\ \E d \in DkDisks :
          /\ dk_own[t][d] >= 1
          /\ dk_own' = [dk_own EXCEPT ![t][d] = @ - 1]
          /\ DkCF(d, 0 - 1)
    /\ UNCHANGED <<chans, dk_lock, dk_pc, dk_arg, dk_loc, dk_n, nonDkVars>>

NextDisk ==
    \/ \E t \in DkThreads : DkSetCall(t)
    \/ \E t \in DkThreads : DkLock(t)
    \/ \E t \in DkThreads : DkSetOld(t)
    \/ \E t \in DkThreads : DkSetStore(t)
    \/ \E t \in DkThreads : DkUnlock(t)
    \/ \E t \in DkThreads : DkSetRelease(t)
    \/ \E t \in DkThreads : DkGetCall(t)
    \/ \E t \in DkThreads : DkGetRead(t)
    \/ \E t \in DkThreads : DkGetRetain(t)
    \/ \E t \in DkThreads : DkGetReturn(t)
    \/ \E t \in DkThreads : DkCallerRelease(t)

SpecDisk == InitDisk /\ [][NextDisk]_vars

\* The references to d owned by the calling code of the threads in S.
RECURSIVE DkOwnSum(_, _)
DkOwnSum(d, S) ==
    IF S = {} THEN 0
    ELSE LET t == CHOOSE x \in S : TRUE
         IN dk_own[t][d] + DkOwnSum(d, S \ {t})

\* The references to d that are accounted for: the channel's, the callers',
\* and the ones held by calls in progress.
DkHeld(d) ==
    (IF chans[TheChan].disk = d THEN 1 ELSE 0)
    + DkOwnSum(d, DkThreads)
    + Cardinality({t \in DkThreads : dk_pc[t] \in {"s_lock", "s_old", "s_store"} /\ dk_arg[t] = d})
    + Cardinality({t \in DkThreads : dk_pc[t] \in {"s_unlock", "s_release"} /\ dk_loc[t] = d})
    + Cardinality({t \in DkThreads : dk_pc[t] \in {"g_unlock", "g_return"} /\ dk_loc[t] = d})

\* C19: in every interleaving of fuse_chan_set_disk (also with NULL) and
\* fuse_chan_disk on one channel, no retain or release ever touches a
\* deallocated object; what fuse_chan_disk is about to return is NULL or a
\* live reference that includes one retain of its own for the caller, even
\* when a concurrent set_disk has replaced and released it meanwhile; and
\* every object's count is exactly the number of references held.
C19_GetDiskReturnsLiveReference ==
    /\ ~dk_bad
    /\ \A t \in DkThreads :
          (dk_pc[t] \in {"g_unlock", "g_return"} /\ dk_loc[t] # NULL) =>
              cf[dk_loc[t]] >= 1
    /\ \A t \in DkThreads :
          (dk_pc[t] = "g_retain" /\ dk_loc[t] # NULL) =>
              (chans[TheChan].disk = dk_loc[t] /\ cf[dk_loc[t]] >= 1)
    /\ \A d \in DkDisks : cf[d] = DkHeld(d)

C19_Witness ==
    \E t \in DkThreads :
        /\ dk_pc[t] = "g_return"
        /\ dk_loc[t] # NULL
        /\ chans[TheChan].disk # dk_loc[t]
        /\ cf[dk_loc[t]] = 1
        /\ \A v \in DkThreads : dk_own[v][dk_loc[t]] = 0
        /\ \A v \in DkThreads \ {t} : dk_pc[v] = "idle"

(***************************************************************************)
(* SpecUnm: fuse_unmount_common (the __APPLE__ branch) as one call, on     *)
(* channels brought into their state by the channel API.                   *)
(***************************************************************************)
\* fuse_unmount_common(mountpoint, ch) on the disk-volume platform: the
\* resulting state, and the argument of fuse_kern_unmount if it was called.
fuse_unmount_common(W, ch) ==
    IF ch # NULL
    THEN LET r == fuse_chan_disk(W, ch) IN
         [w |-> IF unmount_destroys(r.ret)
                THEN fuse_chan_destroy(r.w, ch)
                ELSE CFRelease(r.w, r.ret),
          kern |-> <<r.ret>>]
    ELSE [w |-> W, kern |-> <<>>]

\* fuse_unmount(mountpoint, ch), once per mount.
Unmount ==
    /\ ~aborted /\ Live(TheChan)
    /\ kunmounts = <<>>
    /\ \E ch \in {NULL, TheChan} :
          LET r == fuse_unmount_common(World, ch) IN
             /\ Apply(r.w)
             /\ kunmounts' = IF r.kern = <<>> THEN kunmounts
                             ELSE Append(kunmounts, <<"main", r.kern[1]>>)
             /\ Called("unmount", ch, NULL, NULL)
    /\ UNCHANGED <<owned, hist, pair, lastflag, mntNoKern, dispVars, mtVars, extVars>>

NextUnm ==
    \/ Retain
    \/ SetDisk
    \/ AddChan(TheSess, TheChan)
    \/ Unmount

SpecUnm == Init /\ [][NextUnm]_vars

\* C22: fuse_unmount_common with no channel changes nothing and does not call
\* fuse_kern_unmount; with a channel it calls fuse_kern_unmount once, with the
\* disk attached to the channel at the call (or NULL); every disk's retain
\* count is afterwards what it was, the one CFRelease being that of the copy
\* fuse_chan_disk retained; and the channel is destroyed (unbound from its
\* session, op.destroy run, one reference released) exactly when no disk was
\* attached, and is otherwise left as it was.
C22_UnmountPassesAttachedDisk ==
    last.op = "unmount" =>
        LET pre == last.pre
            ch == last.arg
        IN  IF ch = NULL
            THEN Snapshot = pre /\ kunmounts = <<>> /\ fx = <<>>
            ELSE LET disk == pre.chans[ch].disk IN
                 /\ kunmounts = << <<"main", disk>> >>
                 /\ cf = pre.cf
                 /\ disk # NULL =>
                       /\ chans = pre.chans /\ sess = pre.sess
                       /\ fx = << <<"CFRelease", disk>> >>
                       /\ nrel[ch] = 0
                 /\ disk = NULL =>
                       /\ nrel[ch] = 1
                       /\ chans[ch].retain_count = pre.chans[ch].retain_count - 1
                       /\ chans[ch].se = NULL
                       /\ \A se \in Sessions : sess[se].ch # ch
                       /\ chans[ch].destroyed =
                             pre.chans[ch].destroyed + (IF pre.chans[ch].op_destroy THEN 1 ELSE 0)
                       /\ FxAt("CFRelease", "ref_a") = {}

C22_Witness ==
    /\ last.op = "unmount"
    /\ last.arg = TheChan
    /\ last.pre.chans[TheChan].disk = "ref_b"
    /\ last.pre.chans[TheChan].se = TheSess
    /\ kunmounts = << <<"main", "ref_b">> >>
    /\ chans[TheChan].freed = 0
    /\ cf["ref_b"] = 2

(***************************************************************************)
(* SpecUnmGen: fuse_unmount_common as built without __APPLE__ (the #else   *)
(* branches of lib/helper.c and lib/fuse_session.c), one call at a time,   *)
(* on channels that may be bound to a session.                             *)
(***************************************************************************)
MountPaths == {"/mnt/a", "/mnt/b"}

\* Mutant: the descriptor is returned but left in the channel.
M_clearfd_keeps_fd(fds, c) == [fds |-> fds, ret |-> fds[c]]

\* int fuse_chan_clearfd(ch): fd = ch->fd; ch->fd = -1; return fd;
fuse_chan_clearfd(fds, c) == [fds |-> [fds EXCEPT ![c] = 0 - 1], ret |-> fds[c]]

\* fuse_chan_destroy without __APPLE__: remove_chan, op.destroy, free(ch).
fuse_chan_destroy_free(W, c) ==
    LET W1 == fuse_session_remove_chan(W, c) IN
    IF W1.aborted THEN W1
    ELSE LET W2 == chan_op_destroy(W1, c) IN
         [W2 EXCEPT !.chans[c].freed = @ + 1, !.fx = Append(@, <<"free", c>>)]

\* The #else branch of fuse_unmount_common: the resulting state and
\* descriptors, and what was done in order; the fuse_kern_unmount entry
\* carries its arguments and what ch->fd held when it was called.
fuse_unmount_common_else(W, fds, mountpoint, ch) ==
    IF mountpoint # NULL
    THEN LET r == IF ch # NULL THEN fuse_chan_clearfd(fds, ch)
                  ELSE [fds |-> fds, ret |-> 0 - 1]
             k == [ev |-> "fuse_kern_unmount", mp |-> mountpoint, fd |-> r.ret,
                   chfd |-> IF ch # NULL THEN <<r.fds[ch]>> ELSE <<>>]
         IN  IF ch # NULL
             THEN [w |-> fuse_chan_destroy_free(W, ch), fds |-> r.fds,
                   trace |-> <<[ev |-> "fuse_chan_clearfd"], k, [ev |-> "fuse_chan_destroy"]>>]
             ELSE [w |-> W, fds |-> r.fds, trace |-> <<k>>]
    ELSE [w |-> W, fds |-> fds, trace |-> <<>>]

InitUnmGen ==
    /\ ApiInit /\ DispIdle /\ MtIdle /\ MntIdle
    /\ SgIdle /\ MnIdle /\ DzIdle /\ DxIdle /\ DkIdle
    /\ ch_fd \in [Chans -> Fds]
    /\ gu_call = <<>>
    /\ gu_trace = <<>>

\* fuse_session_add_chan(se, ch) before the unmount
GuAddChan(s, c) ==
    /\ AddChan(s, c)
    /\ sess[s].ch = NULL /\ chans[c].se = NULL

\* fuse_unmount(mountpoint, ch)
GuUnmount(mountpoint, ch) ==
    /\ ~aborted
    /\ ch # NULL => Live(ch)
    /\ LET r == fuse_unmount_common_else(World, ch_fd, mountpoint, ch) IN
          /\ chans' = r.w.chans /\ sess' = r.w.sess /\ aborted' = r.w.aborted
          /\ fx' = r.w.fx
          /\ ch_fd' = r.fds
          /\ gu_trace' = r.trace
    /\ gu_call' = <<mountpoint, ch>>
    /\ Called("unmount", ch, mountpoint, NULL)
    /\ pair' = NoPair
    /\ UNCHANGED nonGuVars

NextUnmGen ==
    \/ \E s \in Sessions, c \in Chans : GuAddChan(s, c)
    \/ \E mp \in MountPaths \cup {NULL}, ch \in Chans \cup {NULL} : GuUnmount(mp, ch)

SpecUnmGen == InitUnmGen /\ [][NextUnmGen]_vars

\* What the last call did, given that it was made on a channel: the
\* descriptor was taken out of the channel, fuse_kern_unmount got the path
\* and the old descriptor while the channel held -1, and the channel was then
\* destroyed (unbound, op.destroy run if there is one, freed).
GuClearedThenDestroyed ==
    LET pre == last.pre
        ch == gu_call[2]
    IN  /\ Len(gu_trace) = 3
        /\ gu_trace[1].ev = "fuse_chan_clearfd"
        /\ gu_trace[2] = [ev |-> "fuse_kern_unmount", mp |-> gu_call[1],
                          fd |-> gu_trace[2].fd, chfd |-> <<0 - 1>>]
        /\ gu_trace[2].fd \in Fds
        /\ gu_trace[3].ev = "fuse_chan_destroy"
        /\ ch_fd[ch] = 0 - 1
        /\ chans[ch].freed = 1
        /\ chans[ch].se = NULL
        /\ \A s \in Sessions : sess[s].ch # ch
        /\ chans[ch].destroyed = (IF pre.chans[ch].op_destroy THEN 1 ELSE 0)

\* C23 as claimed: whatever mount path is passed, fuse_unmount on a channel
\* clears the channel's descriptor before fuse_kern_unmount is called with
\* the old one, and then destroys the channel.
C23_AlwaysClearsAndDestroys ==
    (last.op = "unmount" /\ gu_call # <<>> /\ gu_call[2] # NULL) => GuClearedThenDestroyed

\* C23 amended: with a mount path, fuse_unmount on a channel clears the
\* descriptor, calls fuse_kern_unmount with the path and the old descriptor
\* while the channel holds -1, and then destroys the channel; without a mount
\* path (NULL) the call does nothing at all: the descriptor stays in the
\* channel and the channel is not destroyed.
C23_ClearsAndDestroysGivenPath ==
    (last.op = "unmount" /\ gu_call # <<>> /\ gu_call[2] # NULL) =>
        IF gu_call[1] # NULL
        THEN GuClearedThenDestroyed
        ELSE /\ gu_trace = <<>>
             /\ Snapshot = last.pre
             /\ ch_fd[gu_call[2]] \in Fds
             /\ Live(gu_call[2])

C23_Witness ==
    /\ last.op = "unmount"
    /\ gu_call = <<"/mnt/a", TheChan>>
    /\ last.pre.chans[TheChan].se = TheSess
    /\ Len(gu_trace) = 3
    /\ gu_trace[2].fd = 4
    /\ ch_fd[TheChan] = 0 - 1
    /\ chans[TheChan].freed = 1

====
